---- MODULE Spec2Model ----
(***************************************************************************)
(* A model of the stockvalue exporter's caching and metric-mapping core:   *)
(* app/cache.py (LRUCache) and app/metrics_factory.py (MetricsFactory).    *)
(***************************************************************************)
EXTENDS Integers, Sequences, FiniteSets, TLC

\* ------------------------------------------------------------------ bounds
\* the largest max_size and ttl_seconds a cache is built with, and the last
\* instant of the clock
MaxCap == 2
MaxTtl == 1
MaxTime == 2
\* threads calling one cache
NumThreads == 2

\* the keys and values the calls are made with
Keys == {"AAPL", "GOOGL", "MSFT"}
Values == {"v1", "v2"}
Threads == 1..NumThreads
\* the keys the concurrent calls are made with
ConcKeys == {"AAPL", "GOOGL"}
\* Python's None (the miss result of get, an absent argument) and a present
\* value x, as sequences of length 0 and 1.
None == <<>>
Some(x) == <<x>>

VARIABLES
    cache,        \* LRUCache._cache: the OrderedDict, oldest entry first
    max_size,     \* LRUCache.max_size
    ttl_seconds,  \* LRUCache.ttl_seconds
    now,          \* time.time()
    last,         \* the last call on the cache: its name, key, result, evicted key
    hitSince,     \* keys a get has hit since the last capacity eviction
    recent,       \* the key of the latest hitting get, while no put or hitting
                  \* get has touched another key since; None otherwise
    useOrder,     \* the stored keys by their last put or hitting get, oldest first
    spared,       \* the value of `recent` when the last call evicted for
                  \* capacity, None when it did not evict
    threads,      \* per thread: where it is in its call on the cache, its locals
    fstate,       \* "none" before MetricsFactory.__init__, then how it ended
    app_config,   \* MetricsFactory.app_config: None, or the flags it carries
    metrics,      \* MetricsFactory.metrics: key -> instrument
    registry,     \* MetricsFactory.registry: the instruments the collector holds
    lookup,       \* the last get_metric call: its key and what it returned
    builds,       \* how many times _create_metrics has run: the generation of
                  \* the instruments it creates (each a new Python object)
    samples,      \* the value each instrument holds, for those that hold one
    fcall,        \* the last call on the factory or on a metric writer
    original,     \* the app_config and the key set of the construction
    built,        \* the app_config in force when _create_metrics last ran
    rebuild,      \* a recreate_metrics call in progress: where it is
    _KNOWN_CRYPTOCURRENCIES,  \* SymbolClassifier._KNOWN_CRYPTOCURRENCIES
    _KNOWN_JAPANESE_INDICES,  \* SymbolClassifier._KNOWN_JAPANESE_INDICES
    ccall,        \* the last call on the classifier: its name, symbol, result
    classified,   \* an earlier get_asset_type call picked for comparison: its
                  \* symbol -> the category it returned; forgotten at the
                  \* next add_crypto_symbol / add_index_symbol
    creader,      \* a get_asset_type call running beside the additions: where
                  \* it is, and the categories the allow-lists gave its
                  \* symbol at some moment of the call
    _handlers,    \* AssetHandlerFactory._handlers: category -> handler instance
    hcall,        \* the last get_handler call: its argument, result, error
    fetcher,      \* StockDataFetcher: its two instruments, once constructed
    gcall,        \* the last get_stock_data call: per symbol what it did, and
                  \* the results it returned
    vcall,        \* the last update_prometheus_metrics call: per symbol the
                  \* keys it looked up, the instruments it wrote, its error
    vprev         \* an earlier update of one record, picked for comparison

histVars == <<hitSince, recent, useOrder, spared>>
cacheVars == <<cache, max_size, ttl_seconds, now, last, hitSince, recent, useOrder,
               spared, threads>>
factoryVars == <<fstate, app_config, metrics, registry, lookup, builds, samples,
                 fcall, original, built, rebuild>>
classifierVars == <<_KNOWN_CRYPTOCURRENCIES, _KNOWN_JAPANESE_INDICES, ccall,
                    classified, creader>>
handlerVars == <<_handlers, hcall>>
\* what a call on the cache leaves alone outside the cache
fetcherVars == <<fetcher, gcall>>
viewVars == <<vcall, vprev>>
notCacheVars == <<factoryVars, classifierVars, handlerVars, fetcherVars, viewVars>>
\* what a call on the factory leaves alone outside the factory
notFactoryVars == <<cacheVars, classifierVars, handlerVars, fetcherVars, viewVars>>
\* what a call on the classifier leaves alone outside the classifier
notClassifierVars == <<cacheVars, factoryVars, handlerVars, fetcherVars, viewVars>>
vars == <<cacheVars, factoryVars, classifierVars, handlerVars, fetcherVars, viewVars>>

\* ------------------------------------------------------- LRUCache, pure part
\* key in self._cache
HasKey(c, key) == \E i \in 1..Len(c) : c[i].key = key

\* self._cache[key]
Item(c, key) == c[CHOOSE i \in 1..Len(c) : c[i].key = key]

KeysOf(c) == {c[i].key : i \in 1..Len(c)}

Entry(key, value, t) == [key |-> key, value |-> value, created_at |-> t]

\* (a variant: expiry at the ttl, not after it)
OlderOrEqual(created_at, t, ttl) == t - created_at >= ttl

\* time.time() - created_at > self.ttl_seconds
Older(created_at, t, ttl) == t - created_at > ttl

_is_expired(c, key, t, ttl) ==
    IF ~HasKey(c, key) THEN TRUE
    ELSE Older(Item(c, key).created_at, t, ttl)

_remove(c, key) ==
    IF HasKey(c, key) THEN SelectSeq(c, LAMBDA e : e.key # key) ELSE c

\* OrderedDict.move_to_end(key) on a stored key
move_to_end(c, key) == _remove(c, key) \o <<Item(c, key)>>

\* self._cache[key] = {...}: a stored key keeps its position, a new one is appended
SetItem(c, key, value, t) ==
    IF HasKey(c, key)
    THEN [i \in 1..Len(c) |-> IF c[i].key = key THEN Entry(key, value, t) ELSE c[i]]
    ELSE Append(c, Entry(key, value, t))

\* (a variant: the most recently used key, not the least)
NewestKey(c) == c[Len(c)].key

\* oldest_key = next(iter(self._cache))
OldestKey(c) == c[1].key

_evict_lru(c) == IF c = <<>> THEN c ELSE _remove(c, OldestKey(c))

\* (a variant: the capacity check off by one)
AtCapacityStrict(c, cap) == Len(c) > cap

\* len(self._cache) >= self.max_size
AtCapacity(c, cap) == Len(c) >= cap

\* (a variant: an update that leaves the key where it is)
put_in_place(c, key, value, t, cap) ==
    IF HasKey(c, key)
    THEN SetItem(c, key, value, t)
    ELSE SetItem(IF AtCapacity(c, cap) THEN _evict_lru(c) ELSE c, key, value, t)

put(c, key, value, t, cap) ==
    IF HasKey(c, key)
    THEN move_to_end(SetItem(c, key, value, t), key)
    ELSE SetItem(IF AtCapacity(c, cap) THEN _evict_lru(c) ELSE c, key, value, t)

\* the key put evicts, None when it evicts nothing
Evicted(c, key, cap) ==
    IF ~HasKey(c, key) /\ AtCapacity(c, cap) /\ c # <<>> THEN Some(OldestKey(c)) ELSE None

\* (variants: a hit that leaves the key where it is; an expired entry left stored)
get_cache_no_move(c, key, t, ttl) ==
    IF ~HasKey(c, key) THEN c
    ELSE IF _is_expired(c, key, t, ttl) THEN _remove(c, key)
    ELSE c

get_cache_keep_expired(c, key, t, ttl) ==
    IF ~HasKey(c, key) THEN c
    ELSE IF _is_expired(c, key, t, ttl) THEN c
    ELSE move_to_end(c, key)

\* get: the cache it leaves and the value it returns
get_cache(c, key, t, ttl) ==
    IF ~HasKey(c, key) THEN c
    ELSE IF _is_expired(c, key, t, ttl) THEN _remove(c, key)
    ELSE move_to_end(c, key)

get_value(c, key, t, ttl) ==
    IF ~HasKey(c, key) THEN None
    ELSE IF _is_expired(c, key, t, ttl) THEN None
    ELSE Some(Item(c, key).value)

\* (a variant: the expiry test negated)
UnexpiredKeys(c, t, ttl) == {k \in KeysOf(c) : ~_is_expired(c, k, t, ttl)}

\* expired_keys = [key for key in self._cache.keys() if self._is_expired(key)]
ExpiredKeys(c, t, ttl) == {k \in KeysOf(c) : _is_expired(c, k, t, ttl)}

cleanup_cache(c, t, ttl) == SelectSeq(c, LAMBDA e : e.key \notin ExpiredKeys(c, t, ttl))

cleanup_count(c, t, ttl) == Cardinality(ExpiredKeys(c, t, ttl))

\* ------------------------------------------- LRUCache, the reading methods
\* each gives the cache it leaves and what it returns
\* return len(self._cache)
size(c) == [cache |-> c, ret |-> Len(c)]

\* a / b as Python computes it, kept as the fraction; 0.0 is 0 / 1
Ratio(a, b) == [num |-> a, den |-> b]

\* (a variant: the ratios computed without the test on max_size)
get_stats_unguarded(c, t, ttl, cap) ==
    IF cap = 0
    THEN [cache |-> c, raised |-> Some("ZeroDivisionError"), ret |-> None]
    ELSE [cache |-> c, raised |-> None,
          ret |-> Some([total_items |-> Len(c),
                        active_items |-> Len(c) - Cardinality(ExpiredKeys(c, t, ttl)),
                        max_size |-> cap,
                        ttl_seconds |-> ttl,
                        expired_items |-> Cardinality(ExpiredKeys(c, t, ttl)),
                        memory_usage_ratio |->
                            Ratio(Len(c) - Cardinality(ExpiredKeys(c, t, ttl)), cap),
                        storage_usage_ratio |-> Ratio(Len(c), cap)])]

get_stats(c, t, ttl, cap) ==
    LET expired_count == Cardinality(ExpiredKeys(c, t, ttl))
        active_items == Len(c) - expired_count
    IN [cache |-> c, raised |-> None,
        ret |-> Some([total_items |-> Len(c),
                      active_items |-> active_items,
                      max_size |-> cap,
                      ttl_seconds |-> ttl,
                      expired_items |-> expired_count,
                      memory_usage_ratio |->
                          IF cap > 0 THEN Ratio(active_items, cap) ELSE Ratio(0, 1),
                      storage_usage_ratio |->
                          IF cap > 0 THEN Ratio(Len(c), cap) ELSE Ratio(0, 1)])]

\* the stored keys that are not expired, in the order of the OrderedDict
RECURSIVE NonExpired(_, _, _, _)
NonExpired(c, i, t, ttl) ==
    IF i > Len(c) THEN <<>>
    ELSE (IF _is_expired(c, c[i].key, t, ttl) THEN <<>> ELSE <<c[i].key>>)
         \o NonExpired(c, i + 1, t, ttl)

\* (a variant: the membership test made with get)
contains_by_get(c, key, t, ttl) ==
    [cache |-> get_cache(c, key, t, ttl), ret |-> get_value(c, key, t, ttl) # None]

\* return key in self._cache and not self._is_expired(key)
__contains__(c, key, t, ttl) ==
    [cache |-> c, ret |-> HasKey(c, key) /\ ~_is_expired(c, key, t, ttl)]

\* return len([key for key in self._cache if not self._is_expired(key)])
__len__(c, t, ttl) == [cache |-> c, ret |-> Len(NonExpired(c, 1, t, ttl))]

\* __iter__ and keys(): the keys that are not expired, consumed as a list
cache_keys(c, t, ttl) == [cache |-> c, ret |-> NonExpired(c, 1, t, ttl)]

\* the dicts and the non-dict a cache is compared with: key -> value
EqOthers ==
    {[type |-> "dict", items |-> d] :
         d \in {<<>>} \cup UNION {[{k} -> Values] : k \in Keys}}
    \cup {[type |-> "list", items |-> <<>>]}

\* __eq__: the values of the keys that are not expired, compared with a dict
__eq__(c, other, t, ttl) ==
    LET non_expired_keys == {k \in KeysOf(c) : ~_is_expired(c, k, t, ttl)}
        cache_dict == [k \in non_expired_keys |-> Item(c, k).value]
    IN [cache |-> c,
        ret |-> IF other.type = "dict"
                THEN IF DOMAIN other.items = {} /\ non_expired_keys = {} THEN TRUE
                     ELSE /\ DOMAIN cache_dict = DOMAIN other.items
                          /\ \A k \in non_expired_keys : cache_dict[k] = other.items[k]
                ELSE FALSE]

\* self.max_size = max_size or config.CACHE_MAX_SIZE
OrDefault(arg, dflt) == IF arg = None \/ arg = Some(0) THEN dflt ELSE arg[1]

\* ------------------------------------------------------ LRUCache, the calls
\* a call as `last` keeps it: its name and arguments, whether its key was stored
\* when it was made, what it returned and the key it evicted for capacity
Call(op, key, value, had, ret, evicted) ==
    [op |-> op, key |-> key, value |-> value, had |-> had, ret |-> ret,
     evicted |-> evicted]

\* a thread that is in no call; ret and err are those of its last call
Idle(ret, err) ==
    [pc |-> "idle", op |-> "none", key |-> None, value |-> None, t |-> None,
     created |-> None, cur |-> None, dirty |-> FALSE, expired |-> <<>>,
     count |-> 0, rmkey |-> None, ret |-> ret, err |-> err]

\* no MetricsFactory yet, and a collector registry that holds nothing
FactoryInit ==
    /\ fstate = "none"
    /\ app_config = None
    /\ metrics = <<>>
    /\ registry = {}
    /\ lookup = None
    /\ builds = 0
    /\ samples = <<>>
    /\ fcall = [op |-> "none", key |-> None, failing |-> {}, raised |-> FALSE,
                prev |-> "none", held |-> {}]
    /\ original = None
    /\ built = None
    /\ rebuild = [pc |-> "idle", todo |-> <<>>, reader |-> "idle"]

\* class AssetType(Enum): a member is not equal to its value, nor to None
Member(value) == [type |-> "AssetType", value |-> value]
STOCK == Member("stock")
FOREX == Member("forex")
INDEX == Member("index")
CRYPTO == Member("crypto")
AssetType == {STOCK, FOREX, INDEX, CRYPTO}

\* the class attributes of SymbolClassifier as the module defines them
ClassifierInit ==
    /\ _KNOWN_CRYPTOCURRENCIES =
          {"BTC-USD", "ETH-USD", "ADA-USD", "XRP-USD", "SOL-USD", "DOGE-USD",
           "DOT-USD", "MATIC-USD", "LTC-USD", "BCH-USD", "LINK-USD", "XLM-USD",
           "ALGO-USD", "ATOM-USD", "AVAX-USD"}
    /\ _KNOWN_JAPANESE_INDICES = {"998405.T"}
    /\ ccall = [op |-> "none", symbol |-> "", ret |-> None, was |-> None]
    /\ classified = <<>>
    /\ creader = [pc |-> "idle", symbol |-> "", ret |-> None, valid |-> {}]

\* a handler instance: its class, and which object of that class it is
Handler(class, id) == [class |-> class, id |-> id]

\* AssetHandlerFactory._handlers, built once when the class is defined
HandlerInit ==
    /\ _handlers = [t \in AssetType |->
                      IF t = STOCK THEN Handler("StockHandler", 1)
                      ELSE IF t = FOREX THEN Handler("ForexHandler", 1)
                      ELSE IF t = INDEX THEN Handler("IndexHandler", 1)
                      ELSE Handler("CryptoHandler", 1)]
    /\ hcall = [op |-> "none", arg |-> STOCK, ret |-> None, raised |-> None,
                again |-> None]

\* before StockDataFetcher.__init__, before any get_stock_data call
FetcherInit ==
    /\ fetcher = [state |-> "none", financial_fetch_duration |-> None,
                  financial_fetch_errors |-> None]
    /\ gcall = [op |-> "none", symbols |-> <<>>, steps |-> <<>>, results |-> <<>>,
                raised |-> None]

\* before any update_prometheus_metrics call
ViewInit ==
    /\ vcall = [op |-> "none", symbols |-> <<>>, updates |-> <<>>, raised |-> None]
    /\ vprev = None

\* LRUCache.__init__
CacheInit ==
    /\ cache = <<>>
    /\ \E arg \in {None} \cup {Some(n) : n \in 0..MaxCap}, cfg \in 0..MaxCap :
           max_size = OrDefault(arg, cfg)
    /\ \E arg \in {None} \cup {Some(n) : n \in 0..MaxTtl}, cfg \in 0..MaxTtl :
           ttl_seconds = OrDefault(arg, cfg)
    /\ now = 0
    /\ last = Call("init", None, None, FALSE, None, None)
    /\ hitSince = {}
    /\ recent = None
    /\ useOrder = <<>>
    /\ spared = None
    /\ threads = [th \in Threads |-> Idle(None, None)]

PutCall(key, value) ==
    /\ cache' = put(cache, key, value, now, max_size)
    /\ last' = Call("put", Some(key), Some(value), HasKey(cache, key), None,
                    Evicted(cache, key, max_size))
    /\ UNCHANGED <<max_size, ttl_seconds, now, threads, notCacheVars>>

GetCall(key) ==
    /\ cache' = get_cache(cache, key, now, ttl_seconds)
    /\ last' = Call("get", Some(key), None, HasKey(cache, key),
                    get_value(cache, key, now, ttl_seconds), None)
    /\ UNCHANGED <<max_size, ttl_seconds, now, threads, notCacheVars>>

CleanupCall ==
    /\ cache' = cleanup_cache(cache, now, ttl_seconds)
    /\ last' = Call("cleanup_expired", None, None, FALSE,
                    Some(cleanup_count(cache, now, ttl_seconds)), None)
    /\ UNCHANGED <<max_size, ttl_seconds, now, threads, notCacheVars>>

ClearCall ==
    /\ cache' = <<>>
    /\ last' = Call("clear", None, None, FALSE, None, None)
    /\ UNCHANGED <<max_size, ttl_seconds, now, threads, notCacheVars>>

\* time passes between two calls
TickCall ==
    /\ now < MaxTime
    /\ now' = now + 1
    /\ UNCHANGED <<cache, max_size, ttl_seconds, last, threads, notCacheVars>>

\* a reading method: `after` is the cache it leaves
ReadCall(op, key, after, ret) ==
    /\ cache' = after
    /\ last' = Call(op, key, None, FALSE, Some(ret), None)
    /\ UNCHANGED <<max_size, ttl_seconds, now, threads, histVars, notCacheVars>>

Size == ReadCall("size", None, size(cache).cache, size(cache).ret)

GetStats ==
    LET r == get_stats(cache, now, ttl_seconds, max_size)
    IN ReadCall("get_stats", None, r.cache, [raised |-> r.raised, stats |-> r.ret])

LenCall ==
    LET r == __len__(cache, now, ttl_seconds)
    IN ReadCall("len", None, r.cache, r.ret)

Contains_(key) ==
    LET r == __contains__(cache, key, now, ttl_seconds)
    IN ReadCall("contains", Some(key), r.cache, r.ret)

KeysCall ==
    LET r == cache_keys(cache, now, ttl_seconds)
    IN ReadCall("keys", None, r.cache, r.ret)

EqCall(other) ==
    LET r == __eq__(cache, other, now, ttl_seconds)
    IN ReadCall("eq", None, r.cache, r.ret)

\* cache.max_size = n, as the tests of the zero capacity assign it
SetMaxSize(n) ==
    /\ max_size' = n
    /\ last' = Call("set_max_size", None, None, FALSE, None, None)
    /\ UNCHANGED <<cache, ttl_seconds, now, threads, histVars, notCacheVars>>

\* -------------------------------------------------- one caller, call by call
Put(key, value) == PutCall(key, value) /\ UNCHANGED histVars
Get(key) == GetCall(key) /\ UNCHANGED histVars
CleanupExpired == CleanupCall /\ UNCHANGED histVars
Clear == ClearCall /\ UNCHANGED histVars
Tick == TickCall /\ UNCHANGED histVars

Init ==
    /\ CacheInit /\ FactoryInit /\ ClassifierInit /\ HandlerInit
    /\ FetcherInit /\ ViewInit

Next ==
    \/ \E key \in Keys, value \in Values : Put(key, value)
    \/ \E key \in Keys : Get(key)
    \/ CleanupExpired
    \/ Clear
    \/ Tick

Spec == Init /\ [][Next]_vars

\* the writing calls and the reading methods of one caller
NextStats ==
    \/ \E key \in ConcKeys, value \in Values : Put(key, value)
    \/ \E key \in ConcKeys : Get(key)
    \/ CleanupExpired
    \/ Tick
    \/ Size
    \/ GetStats
    \/ LenCall
    \/ \E key \in ConcKeys : Contains_(key)
    \/ KeysCall
    \/ \E other \in EqOthers : EqCall(other)
    \/ \E n \in 0..MaxCap : SetMaxSize(n)

SpecStats == Init /\ [][NextStats]_vars

\* ------------------------------- one caller, with the history of the hits kept
\* the keys of `order` that are stored in c, and k last when it has just been used
Used(order, k, c) ==
    SelectSeq(order, LAMBDA x : x # k /\ HasKey(c, x)) \o (IF HasKey(c, k) THEN <<k>> ELSE <<>>)
StillStored(order, c) == SelectSeq(order, LAMBDA x : HasKey(c, x))

\* (recency does not depend on the values: one value is put)
PutTracked(key) ==
    /\ PutCall(key, CHOOSE value \in Values : TRUE)
    /\ hitSince' = IF Evicted(cache, key, max_size) # None THEN {} ELSE hitSince
    /\ recent' = IF recent = Some(key) THEN recent ELSE None
    /\ useOrder' = Used(useOrder, key, cache')
    /\ spared' = IF Evicted(cache, key, max_size) # None THEN recent ELSE None

GetTracked(key) ==
    /\ GetCall(key)
    /\ hitSince' = IF get_value(cache, key, now, ttl_seconds) # None
                   THEN hitSince \cup {key} ELSE hitSince
    /\ recent' = IF get_value(cache, key, now, ttl_seconds) # None THEN Some(key) ELSE recent
    /\ useOrder' = IF get_value(cache, key, now, ttl_seconds) # None
                   THEN Used(useOrder, key, cache') ELSE StillStored(useOrder, cache')
    /\ spared' = None

CleanupTracked ==
    /\ CleanupCall
    /\ useOrder' = StillStored(useOrder, cache')
    /\ spared' = None
    /\ UNCHANGED <<hitSince, recent>>

ClearTracked ==
    /\ ClearCall
    /\ useOrder' = <<>>
    /\ spared' = None
    /\ UNCHANGED <<hitSince, recent>>

TickTracked == TickCall /\ UNCHANGED histVars

NextRecency ==
    \/ \E key \in Keys : PutTracked(key)
    \/ \E key \in Keys : GetTracked(key)
    \/ CleanupTracked
    \/ ClearTracked
    \/ TickTracked

SpecRecency == Init /\ [][NextRecency]_vars

\* ------------------------------------- several threads, statement by statement
\* LRUCache takes no lock (StockDataFetcher shares one instance between the
\* requests): a thread may be pre-empted between any two statements of a call.
\* One step is one access of the OrderedDict or of the clock. An access of a
\* key that another thread has removed raises KeyError, next(iter()) of an
\* emptied dict raises StopIteration, and the iterator of cleanup_expired
\* raises RuntimeError at its next key once the dict was mutated under it.
At(th, pc) == threads[th].pc = pc

\* the thread's own step, the other threads as they are
Own(th, r) == threads' = [threads EXCEPT ![th] = r]

\* the thread's own step, after it changed the dict from c: the live iterators
\* of the other threads see the mutation
Mutating(th, r, c) ==
    threads' = [x \in Threads |->
                  IF x = th THEN r
                  ELSE IF cache' # c /\ threads[x].op = "cleanup_expired"
                          /\ threads[x].cur # None
                       THEN [threads[x] EXCEPT !.dirty = TRUE]
                       ELSE threads[x]]

Returns(ret) == Idle(ret, None)
Raises(err) == Idle(None, Some(err))

ConcFrame ==
    UNCHANGED <<max_size, ttl_seconds, now, last, hitSince, recent, useOrder, spared,
                notCacheVars>>

StartGet(th, key) ==
    /\ At(th, "idle")
    /\ Own(th, [Idle(None, None) EXCEPT !.pc = "get_in", !.op = "get", !.key = Some(key)])
    /\ UNCHANGED cache /\ ConcFrame

StartPut(th, key, value) ==
    /\ At(th, "idle")
    /\ Own(th, [Idle(None, None) EXCEPT !.pc = "put_time", !.op = "put",
                                       !.key = Some(key), !.value = Some(value)])
    /\ UNCHANGED cache /\ ConcFrame

StartCleanup(th) ==
    /\ At(th, "idle")
    /\ Own(th, [Idle(None, None) EXCEPT !.pc = "cl_iter", !.op = "cleanup_expired"])
    /\ UNCHANGED cache /\ ConcFrame

\* get: if key not in self._cache: return None
GetIn(th) ==
    /\ At(th, "get_in")
    /\ Own(th, IF HasKey(cache, threads[th].key[1])
               THEN [threads[th] EXCEPT !.pc = "exp_in"]
               ELSE Returns(None))
    /\ UNCHANGED cache /\ ConcFrame

\* what follows _is_expired, in get and in the comprehension of cleanup_expired
AfterExpired(r, expired) ==
    IF r.op = "get"
    THEN IF expired THEN [r EXCEPT !.pc = "rm_in", !.rmkey = r.key]
                    ELSE [r EXCEPT !.pc = "get_move"]
    ELSE [r EXCEPT !.pc = "cl_next",
                   !.expired = IF expired THEN Append(r.expired, r.key[1]) ELSE r.expired,
                   !.count = IF expired THEN r.count + 1 ELSE r.count]

\* _is_expired: if key not in self._cache: return True
ExpIn(th) ==
    /\ At(th, "exp_in")
    /\ Own(th, IF HasKey(cache, threads[th].key[1])
               THEN [threads[th] EXCEPT !.pc = "exp_read"]
               ELSE AfterExpired(threads[th], TRUE))
    /\ UNCHANGED cache /\ ConcFrame

\* _is_expired: created_at = float(self._cache[key]["created_at"])
ExpRead(th) ==
    /\ At(th, "exp_read")
    /\ Own(th, IF HasKey(cache, threads[th].key[1])
               THEN [threads[th] EXCEPT !.pc = "exp_cmp",
                        !.created = Some(Item(cache, threads[th].key[1]).created_at)]
               ELSE Raises("KeyError"))
    /\ UNCHANGED cache /\ ConcFrame

\* _is_expired: return time.time() - created_at > self.ttl_seconds
ExpCmp(th) ==
    /\ At(th, "exp_cmp")
    /\ Own(th, AfterExpired([threads[th] EXCEPT !.created = None],
                            Older(threads[th].created[1], now, ttl_seconds)))
    /\ UNCHANGED cache /\ ConcFrame

\* what follows _remove, in get, in _evict_lru and in cleanup_expired
AfterRemove(r) ==
    IF r.op = "get" THEN Returns(None)
    ELSE IF r.op = "put" THEN [r EXCEPT !.pc = "put_ins", !.rmkey = None]
    ELSE [r EXCEPT !.pc = "cl_rm_next", !.rmkey = None]

\* _remove: if key in self._cache:
RmIn(th) ==
    /\ At(th, "rm_in")
    /\ Own(th, IF HasKey(cache, threads[th].rmkey[1])
               THEN [threads[th] EXCEPT !.pc = "rm_del"]
               ELSE AfterRemove(threads[th]))
    /\ UNCHANGED cache /\ ConcFrame

\* _remove: del self._cache[key]
RmDel(th) ==
    /\ At(th, "rm_del")
    /\ IF HasKey(cache, threads[th].rmkey[1])
       THEN /\ cache' = _remove(cache, threads[th].rmkey[1])
            /\ Mutating(th, AfterRemove(threads[th]), cache)
       ELSE /\ Own(th, Raises("KeyError"))
            /\ UNCHANGED cache
    /\ ConcFrame

\* get: self._cache.move_to_end(key)
GetMove(th) ==
    /\ At(th, "get_move")
    /\ IF HasKey(cache, threads[th].key[1])
       THEN /\ cache' = move_to_end(cache, threads[th].key[1])
            /\ Mutating(th, [threads[th] EXCEPT !.pc = "get_read"], cache)
       ELSE /\ Own(th, Raises("KeyError"))
            /\ UNCHANGED cache
    /\ ConcFrame

\* get: value = self._cache[key]["value"]; return value
GetRead(th) ==
    /\ At(th, "get_read")
    /\ Own(th, IF HasKey(cache, threads[th].key[1])
               THEN Returns(Some(Item(cache, threads[th].key[1]).value))
               ELSE Raises("KeyError"))
    /\ UNCHANGED cache /\ ConcFrame

\* put: current_time = time.time()
PutTime(th) ==
    /\ At(th, "put_time")
    /\ Own(th, [threads[th] EXCEPT !.pc = "put_in", !.t = Some(now)])
    /\ UNCHANGED cache /\ ConcFrame

\* put: if key in self._cache:
PutIn(th) ==
    /\ At(th, "put_in")
    /\ Own(th, [threads[th] EXCEPT !.pc = IF HasKey(cache, threads[th].key[1])
                                          THEN "put_set" ELSE "put_len"])
    /\ UNCHANGED cache /\ ConcFrame

\* put, stored key: self._cache[key] = {...}
PutSet(th) ==
    /\ At(th, "put_set")
    /\ cache' = SetItem(cache, threads[th].key[1], threads[th].value[1], threads[th].t[1])
    /\ Mutating(th, [threads[th] EXCEPT !.pc = "put_move"],
                IF HasKey(cache, threads[th].key[1]) THEN cache' ELSE cache)
    /\ ConcFrame

\* put, stored key: self._cache.move_to_end(key)
PutMove(th) ==
    /\ At(th, "put_move")
    /\ IF HasKey(cache, threads[th].key[1])
       THEN /\ cache' = move_to_end(cache, threads[th].key[1])
            /\ Mutating(th, Returns(None), cache)
       ELSE /\ Own(th, Raises("KeyError"))
            /\ UNCHANGED cache
    /\ ConcFrame

\* put, new key: if len(self._cache) >= self.max_size:
PutLen(th) ==
    /\ At(th, "put_len")
    /\ Own(th, [threads[th] EXCEPT !.pc = IF AtCapacity(cache, max_size)
                                          THEN "evict_empty" ELSE "put_ins"])
    /\ UNCHANGED cache /\ ConcFrame

\* _evict_lru: if not self._cache: return
EvictEmpty(th) ==
    /\ At(th, "evict_empty")
    /\ Own(th, [threads[th] EXCEPT !.pc = IF cache = <<>> THEN "put_ins" ELSE "evict_oldest"])
    /\ UNCHANGED cache /\ ConcFrame

\* _evict_lru: oldest_key = next(iter(self._cache))
EvictOldest(th) ==
    /\ At(th, "evict_oldest")
    /\ Own(th, IF cache = <<>>
               THEN Raises("StopIteration")
               ELSE [threads[th] EXCEPT !.pc = "rm_in", !.rmkey = Some(OldestKey(cache))])
    /\ UNCHANGED cache /\ ConcFrame

\* put, new key: self._cache[key] = {...}
PutIns(th) ==
    /\ At(th, "put_ins")
    /\ cache' = SetItem(cache, threads[th].key[1], threads[th].value[1], threads[th].t[1])
    /\ Mutating(th, Returns(None),
                IF HasKey(cache, threads[th].key[1]) THEN cache' ELSE cache)
    /\ ConcFrame

\* cleanup_expired: the comprehension takes its iterator of self._cache.keys()
ClIter(th) ==
    /\ At(th, "cl_iter")
    /\ Own(th, [threads[th] EXCEPT !.pc = "cl_next", !.dirty = FALSE,
                   !.cur = IF cache = <<>> THEN None ELSE Some(cache[1].key)])
    /\ UNCHANGED cache /\ ConcFrame

\* the key after key in c, None after the last
KeyAfter(c, key) ==
    LET i == CHOOSE j \in 1..Len(c) : c[j].key = key
    IN IF i = Len(c) THEN None ELSE Some(c[i + 1].key)

\* cleanup_expired: the iterator's next key, or the end of the comprehension
ClNext(th) ==
    /\ At(th, "cl_next")
    /\ Own(th, IF threads[th].cur = None
               THEN [threads[th] EXCEPT !.pc = "cl_rm_next", !.key = None]
               ELSE IF threads[th].dirty
               THEN Raises("RuntimeError")
               ELSE [threads[th] EXCEPT !.pc = "exp_in", !.key = threads[th].cur,
                                        !.cur = KeyAfter(cache, threads[th].cur[1])])
    /\ UNCHANGED cache /\ ConcFrame

\* cleanup_expired: for key in expired_keys: self._remove(key); return len(expired_keys)
ClRmNext(th) ==
    /\ At(th, "cl_rm_next")
    /\ Own(th, IF threads[th].expired = <<>>
               THEN Returns(Some(threads[th].count))
               ELSE [threads[th] EXCEPT !.pc = "rm_in",
                                        !.rmkey = Some(Head(threads[th].expired)),
                                        !.expired = Tail(threads[th].expired)])
    /\ UNCHANGED cache /\ ConcFrame

\* (one value is put: the interleavings do not depend on it)
NextConc ==
    \/ \E th \in Threads, key \in ConcKeys : StartGet(th, key)
    \/ \E th \in Threads, key \in ConcKeys : StartPut(th, key, CHOOSE value \in Values : TRUE)
    \/ \E th \in Threads : StartCleanup(th)
    \/ \E th \in Threads : GetIn(th)
    \/ \E th \in Threads : ExpIn(th)
    \/ \E th \in Threads : ExpRead(th)
    \/ \E th \in Threads : ExpCmp(th)
    \/ \E th \in Threads : RmIn(th)
    \/ \E th \in Threads : RmDel(th)
    \/ \E th \in Threads : GetMove(th)
    \/ \E th \in Threads : GetRead(th)
    \/ \E th \in Threads : PutTime(th)
    \/ \E th \in Threads : PutIn(th)
    \/ \E th \in Threads : PutSet(th)
    \/ \E th \in Threads : PutMove(th)
    \/ \E th \in Threads : PutLen(th)
    \/ \E th \in Threads : EvictEmpty(th)
    \/ \E th \in Threads : EvictOldest(th)
    \/ \E th \in Threads : PutIns(th)
    \/ \E th \in Threads : ClIter(th)
    \/ \E th \in Threads : ClNext(th)
    \/ \E th \in Threads : ClRmNext(th)
    \/ Tick

\* LRUCache(max_size, ttl_seconds) built with both arguments given and positive
ConcInit ==
    /\ Init
    /\ max_size >= 1
    /\ ttl_seconds >= 1

SpecConc == ConcInit /\ [][NextConc]_vars

\* C8: with several threads calling put, get and cleanup_expired on one cache,
\* the number of stored entries never exceeds max_size in any interleaving.
C8_ConcurrentSizeWithinMaxSize == Len(cache) <= max_size

\* C9: under any interleaving of concurrent get, put and cleanup_expired calls
\* on one cache, no call fails.
C9_NoCallFails == \A th \in Threads : threads[th].err = None


\* ------------------------------------------------- properties of the cache
\* the step is a call of `op` (a call leaves the clock alone, Tick moves it)
Called(op) == now' = now /\ last'.op = op

\* the entries of c other than key's, in their order
Others(c, key) == SelectSeq(c, LAMBDA e : e.key # key)

\* C1: for a cache with max_size >= 1, under every sequence of put, get,
\* cleanup_expired and clear calls, the number of stored entries never
\* exceeds max_size.
C1_SizeWithinMaxSize == max_size >= 1 => Len(cache) <= max_size

\* a put on a full cache has evicted and left the cache full
C1_Witness ==
    max_size >= 1 /\ last.op = "put" /\ last.evicted # None /\ Len(cache) = max_size

\* C2: a put of a key that is not stored, on a cache (max_size >= 1) that holds
\* max_size entries, removes exactly one entry, the one whose last put or
\* hitting get is the oldest, and retains every other entry; on a cache that
\* holds fewer entries it removes nothing.
C2_PutEvictsExactlyLru ==
    [][(Called("put") /\ ~last'.had /\ max_size >= 1) =>
        LET key == last'.key[1] IN
        IF Len(cache) >= max_size
        THEN /\ KeysOf(cache) \ KeysOf(cache') = {useOrder[1]}
             /\ Others(cache', key) = Others(cache, useOrder[1])
             /\ Len(cache') = Len(cache)
        ELSE /\ Others(cache', key) = cache
             /\ Len(cache') = Len(cache) + 1]_vars

\* a put of a new key has evicted from a cache of two or more entries
C2_Witness ==
    /\ last.op = "put" /\ ~last.had /\ last.evicted # None
    /\ max_size >= 2 /\ Len(cache) = max_size

\* C3: get on a stored key misses exactly when now - created_at > ttl_seconds
\* and returns the stored value otherwise, also at now - created_at =
\* ttl_seconds; get on a key that is not stored misses.
C3_GetMissesIffExpired ==
    [][Called("get") =>
        LET key == last'.key[1] IN
        IF HasKey(cache, key)
        THEN /\ (last'.ret = None) <=> (now - Item(cache, key).created_at > ttl_seconds)
             /\ (now - Item(cache, key).created_at <= ttl_seconds)
                    => last'.ret = Some(Item(cache, key).value)
        ELSE last'.ret = None]_vars

\* a get has hit an entry whose age is exactly ttl_seconds
C3_Witness ==
    /\ last.op = "get" /\ last.ret # None /\ ttl_seconds >= 1
    /\ HasKey(cache, last.key[1])
    /\ now - Item(cache, last.key[1]).created_at = ttl_seconds

\* C4 as claimed: the next capacity eviction after a hitting get(k) never
\* removes k while another entry is stored.
C4_NextEvictionSparesHit ==
    [][(Called("put") /\ last'.evicted # None /\ Len(cache) >= 2)
        => last'.evicted[1] \notin hitSince]_vars

\* C4, amended: a get that hits leaves its key most recently used and the
\* other entries in their order; a get that misses leaves the order of the
\* entries that stay; and a capacity eviction does not remove the key of the
\* latest hitting get while another entry is stored, as long as no put or
\* hitting get has touched another key since that get.
C4_HitMovesToMostRecent ==
    [][/\ (Called("get") /\ last'.ret # None) =>
            /\ cache'[Len(cache')].key = last'.key[1]
            /\ Others(cache', last'.key[1]) = Others(cache, last'.key[1])
            /\ Len(cache') = Len(cache)
       /\ (Called("get") /\ last'.ret = None) =>
            cache' = Others(cache, last'.key[1])
       /\ (Called("put") /\ last'.evicted # None /\ Len(cache) >= 2 /\ recent # None)
            => last'.evicted # recent]_vars

\* a put has evicted another key from a cache of two or more entries while
\* the key of the latest hitting get stays stored
C4_Witness ==
    /\ last.op = "put" /\ last.evicted # None /\ max_size >= 2
    /\ spared # None /\ HasKey(cache, spared[1]) /\ last.evicted # spared

\* C5: a put on a stored key replaces its value, sets its created_at to the
\* current time, moves it to most recently used and evicts nothing: the
\* number of entries and every other entry are as before.
C5_PutOnStoredKeyRefreshes ==
    [][(Called("put") /\ last'.had) =>
        LET key == last'.key[1] IN
        /\ Len(cache') = Len(cache)
        /\ cache'[Len(cache')] = Entry(key, last'.value[1], now)
        /\ Others(cache', key) = Others(cache, key)
        /\ last'.evicted = None]_vars

\* a stored key has been put again, later, on a full cache of two entries or more
C5_Witness ==
    /\ last.op = "put" /\ last.had /\ max_size >= 2 /\ Len(cache) = max_size
    /\ now >= 1 /\ cache[Len(cache)].created_at = now
    /\ cache[1].created_at < now

\* C6: a get on a stored, expired key misses and removes that entry alone; a
\* get on the same key right after misses again and changes nothing; removing
\* a key that is not stored changes nothing.
C6_ExpiredGetRemovesOnce ==
    [][/\ (Called("get") /\ last'.had /\ last'.ret = None) =>
            /\ cache' = Others(cache, last'.key[1])
            /\ Len(cache') = Len(cache) - 1
       /\ (Called("get") /\ ~last'.had) =>
            /\ last'.ret = None
            /\ cache' = cache
       /\ (last.op = "get" /\ last.had /\ last.ret = None /\ Called("get")
           /\ last'.key = last.key) =>
            /\ last'.ret = None
            /\ cache' = cache
       /\ \A key \in Keys \ KeysOf(cache) : _remove(cache, key) = cache]_vars

\* a get has removed an expired entry and left another one stored
C6_Witness ==
    /\ last.op = "get" /\ last.had /\ last.ret = None
    /\ ~HasKey(cache, last.key[1]) /\ Len(cache) >= 1

\* C7: cleanup_expired removes exactly the stored entries with
\* now - created_at > ttl_seconds, the keys on which get would miss, returns
\* how many it removed and leaves the other entries and their order; called
\* again at the same time it removes nothing and returns 0.
C7_CleanupRemovesExactlyExpired ==
    [][Called("cleanup_expired") =>
        /\ cache' = SelectSeq(cache, LAMBDA e : ~(now - e.created_at > ttl_seconds))
        /\ KeysOf(cache) \ KeysOf(cache')
             = {k \in KeysOf(cache) : get_value(cache, k, now, ttl_seconds) = None}
        /\ last'.ret = Some(Len(cache) - Len(cache'))
        /\ cleanup_cache(cache', now', ttl_seconds) = cache'
        /\ cleanup_count(cache', now', ttl_seconds) = 0]_vars

\* a cleanup has removed an entry and kept another
C7_Witness ==
    /\ last.op = "cleanup_expired" /\ last.ret # None /\ last.ret # Some(0)
    /\ Len(cache) >= 1

\* ----------------------------------------------------------- MetricsFactory
\* A metric name is the sequence of its characters, so that the patterns of
\* _should_create_metric are looked for in it as Python's `in` does. The table
\* gives a name by its words; Spelling spells each word.
Spelling ==
    [stock |-> <<"s", "t", "o", "c", "k">>,
     price |-> <<"p", "r", "i", "c", "e">>,
     current |-> <<"c", "u", "r", "r", "e", "n", "t">>,
     volume |-> <<"v", "o", "l", "u", "m", "e">>,
     market |-> <<"m", "a", "r", "k", "e", "t">>,
     cap |-> <<"c", "a", "p">>,
     pe |-> <<"p", "e">>,
     ratio |-> <<"r", "a", "t", "i", "o">>,
     dividend |-> <<"d", "i", "v", "i", "d", "e", "n", "d">>,
     yield |-> <<"y", "i", "e", "l", "d">>,
     52week |-> <<"5", "2", "w", "e", "e", "k">>,
     high |-> <<"h", "i", "g", "h">>,
     low |-> <<"l", "o", "w">>,
     previous |-> <<"p", "r", "e", "v", "i", "o", "u", "s">>,
     close |-> <<"c", "l", "o", "s", "e">>,
     change |-> <<"c", "h", "a", "n", "g", "e">>,
     percent |-> <<"p", "e", "r", "c", "e", "n", "t">>,
     last |-> <<"l", "a", "s", "t">>,
     updated |-> <<"u", "p", "d", "a", "t", "e", "d">>,
     timestamp |-> <<"t", "i", "m", "e", "s", "t", "a", "m", "p">>,
     forex |-> <<"f", "o", "r", "e", "x">>,
     rate |-> <<"r", "a", "t", "e">>,
     index |-> <<"i", "n", "d", "e", "x">>,
     value |-> <<"v", "a", "l", "u", "e">>,
     crypto |-> <<"c", "r", "y", "p", "t", "o">>,
     fetch |-> <<"f", "e", "t", "c", "h">>,
     errors |-> <<"e", "r", "r", "o", "r", "s">>,
     total |-> <<"t", "o", "t", "a", "l">>,
     duration |-> <<"d", "u", "r", "a", "t", "i", "o", "n">>,
     seconds |-> <<"s", "e", "c", "o", "n", "d", "s">>,
     financial |-> <<"f", "i", "n", "a", "n", "c", "i", "a", "l">>]

\* the words joined by "_"
RECURSIVE Join(_)
Join(words) ==
    IF Len(words) = 1 THEN Spelling[words[1]]
    ELSE Spelling[words[1]] \o <<"_">> \o Join(Tail(words))

\* one definition of the table (its description and labels are left out)
Def(words, key) == [name |-> Join(words), key |-> key]

DefaultGauges == <<
    Def(<<"stock", "price", "current">>, "stock_price"),
    Def(<<"stock", "volume", "current">>, "stock_volume"),
    Def(<<"stock", "market", "cap">>, "stock_market_cap"),
    Def(<<"stock", "pe", "ratio">>, "stock_pe_ratio"),
    Def(<<"stock", "dividend", "yield">>, "stock_dividend_yield"),
    Def(<<"stock", "52week", "high">>, "stock_52week_high"),
    Def(<<"stock", "52week", "low">>, "stock_52week_low"),
    Def(<<"stock", "previous", "close">>, "stock_previous_close"),
    Def(<<"stock", "price", "change">>, "stock_price_change"),
    Def(<<"stock", "price", "change", "percent">>, "stock_price_change_percent"),
    Def(<<"stock", "last", "updated", "timestamp">>, "stock_last_updated"),
    Def(<<"forex", "rate", "current">>, "forex_rate"),
    Def(<<"forex", "previous", "close">>, "forex_previous_close"),
    Def(<<"forex", "rate", "change">>, "forex_rate_change"),
    Def(<<"forex", "rate", "change", "percent">>, "forex_rate_change_percent"),
    Def(<<"forex", "52week", "high">>, "forex_52week_high"),
    Def(<<"forex", "52week", "low">>, "forex_52week_low"),
    Def(<<"forex", "last", "updated", "timestamp">>, "forex_last_updated"),
    Def(<<"index", "value", "current">>, "index_value"),
    Def(<<"index", "volume", "current">>, "index_volume"),
    Def(<<"index", "previous", "close">>, "index_previous_close"),
    Def(<<"index", "value", "change">>, "index_value_change"),
    Def(<<"index", "value", "change", "percent">>, "index_value_change_percent"),
    Def(<<"index", "52week", "high">>, "index_52week_high"),
    Def(<<"index", "52week", "low">>, "index_52week_low"),
    Def(<<"index", "last", "updated", "timestamp">>, "index_last_updated"),
    Def(<<"crypto", "price", "current">>, "crypto_price"),
    Def(<<"crypto", "volume", "current">>, "crypto_volume"),
    Def(<<"crypto", "market", "cap">>, "crypto_market_cap"),
    Def(<<"crypto", "previous", "close">>, "crypto_previous_close"),
    Def(<<"crypto", "price", "change">>, "crypto_price_change"),
    Def(<<"crypto", "price", "change", "percent">>, "crypto_price_change_percent"),
    Def(<<"crypto", "52week", "high">>, "crypto_52week_high"),
    Def(<<"crypto", "52week", "low">>, "crypto_52week_low"),
    Def(<<"crypto", "last", "updated", "timestamp">>, "crypto_last_updated")
    >>

DefaultCounters == <<
    Def(<<"stock", "fetch", "errors", "total">>, "stock_fetch_errors"),
    Def(<<"forex", "fetch", "errors", "total">>, "forex_fetch_errors"),
    Def(<<"index", "fetch", "errors", "total">>, "index_fetch_errors"),
    Def(<<"crypto", "fetch", "errors", "total">>, "crypto_fetch_errors")
    >>

DefaultHistograms == <<
    Def(<<"stock", "fetch", "duration", "seconds">>, "stock_fetch_duration"),
    Def(<<"forex", "fetch", "duration", "seconds">>, "forex_fetch_duration"),
    Def(<<"index", "fetch", "duration", "seconds">>, "index_fetch_duration"),
    Def(<<"crypto", "fetch", "duration", "seconds">>, "crypto_fetch_duration")
    >>

DEFAULT_METRICS_CONFIG ==
    [gauges |-> DefaultGauges, counters |-> DefaultCounters,
     histograms |-> DefaultHistograms]

AllDefs(config) ==
    {config.gauges[i] : i \in 1..Len(config.gauges)}
        \cup {config.counters[i] : i \in 1..Len(config.counters)}
        \cup {config.histograms[i] : i \in 1..Len(config.histograms)}

\* pattern in metric_name
Contains(pattern, name) ==
    \E i \in 0..(Len(name) - Len(pattern)) :
        SubSeq(name, i + 1, i + Len(pattern)) = pattern

\* (a variant: the low pattern forgotten)
range_metric_patterns_high_only == {Join(<<"52week", "high">>)}

range_metric_patterns == {Join(<<"52week", "high">>), Join(<<"52week", "low">>)}

\* (a variant: the errors pattern forgotten)
debug_metric_patterns_duration_only == {Join(<<"fetch", "duration">>)}

debug_metric_patterns == {Join(<<"fetch", "duration">>), Join(<<"fetch", "errors">>)}

\* an app_config: its two flags, each set to a boolean or not set at all
Flags(range, debug) == [ENABLE_RANGE_METRICS |-> range, ENABLE_DEBUG_METRICS |-> debug]
FlagValues == {None, Some(TRUE), Some(FALSE)}
AppConfigs == {None} \cup {Some(Flags(r, d)) : r \in FlagValues, d \in FlagValues}

\* getattr(self.app_config, attr, True)
GetAttr(flag) == IF flag = None THEN TRUE ELSE flag[1]

\* (a variant: the final `return True` replaced by the debug flag)
_should_create_metric_debug_by_default(metric_name, cfg) ==
    IF cfg = None THEN TRUE
    ELSE IF \E pattern \in range_metric_patterns : Contains(pattern, metric_name)
    THEN GetAttr(cfg[1].ENABLE_RANGE_METRICS)
    ELSE GetAttr(cfg[1].ENABLE_DEBUG_METRICS)

_should_create_metric(metric_name, cfg) ==
    IF cfg = None THEN TRUE
    ELSE IF \E pattern \in range_metric_patterns : Contains(pattern, metric_name)
    THEN GetAttr(cfg[1].ENABLE_RANGE_METRICS)
    ELSE IF \E pattern \in debug_metric_patterns : Contains(pattern, metric_name)
    THEN GetAttr(cfg[1].ENABLE_DEBUG_METRICS)
    ELSE TRUE

\* Gauge(name, ..., registry=self.registry), Counter(...), Histogram(...): the
\* instrument, which the collector refuses when it holds one of that name
\* gen makes the instrument of a later _create_metrics another object than the
\* one an earlier run created under the same name
Instrument(kind, name, gen) == [kind |-> kind, name |-> name, gen |-> gen]
Duplicated(reg, name) == \E m \in reg : m.name = name

\* self.metrics[key] = metric
SetMetric(m, key, metric) ==
    [k \in DOMAIN m \cup {key} |-> IF k = key THEN metric ELSE m[k]]

\* the factory's map and collector while _create_metrics runs, whether an
\* instrument's registration has raised, and the generation of the instruments
Build(m, reg, raised, gen) ==
    [metrics |-> m, registry |-> reg, raised |-> raised, gen |-> gen]

CreateOne(kind, d, b) ==
    IF Duplicated(b.registry, d.name)
    THEN Build(b.metrics, b.registry, TRUE, b.gen)
    ELSE Build(SetMetric(b.metrics, d.key, Instrument(kind, d.name, b.gen)),
               b.registry \cup {Instrument(kind, d.name, b.gen)}, FALSE, b.gen)

\* for xxx_config in self.config.get(section, []): if self._should_create_metric(...)
RECURSIVE CreateSection(_, _, _, _)
CreateSection(kind, defs, cfg, b) ==
    IF defs = <<>> \/ b.raised THEN b
    ELSE CreateSection(kind, Tail(defs), cfg,
                       IF _should_create_metric(Head(defs).name, cfg)
                       THEN CreateOne(kind, Head(defs), b) ELSE b)

\* (a variant: the histogram section forgotten)
_create_metrics_without_histograms(config, cfg, b) ==
    CreateSection("Counter", config.counters, cfg,
        CreateSection("Gauge", config.gauges, cfg, b))

_create_metrics(config, cfg, b) ==
    CreateSection("Histogram", config.histograms, cfg,
        CreateSection("Counter", config.counters, cfg,
            CreateSection("Gauge", config.gauges, cfg, b)))

\* self.metrics.get(key)
get_metric(m, key) == IF key \in DOMAIN m THEN Some(m[key]) ELSE None

\* the keys get_metric is called with: those of the table, and keys of no definition
TableKeys == {d.key : d \in AllDefs(DEFAULT_METRICS_CONFIG)}
UnknownKeys == {"financial_price", "financial_fetch_duration", "financial_fetch_errors"}
LookupKeys == TableKeys \cup UnknownKeys

\* MetricsFactory(registry=CollectorRegistry(), app_config=cfg), the default table
\* a call on the factory or on a writer: its name, the key it is made with,
\* the instruments whose clear() fails during it, whether it raised, the name
\* of the call before it, and the instruments that held a value when it began
FCall(op, key, failing, raised) ==
    [op |-> op, key |-> key, failing |-> failing, raised |-> raised,
     prev |-> fcall.op, held |-> DOMAIN samples]

Construct(cfg) ==
    /\ fstate = "none"
    /\ LET b == _create_metrics(DEFAULT_METRICS_CONFIG, cfg,
                                Build(<<>>, registry, FALSE, builds + 1))
       IN /\ fstate' = IF b.raised THEN "raised" ELSE "constructed"
          /\ metrics' = b.metrics
          /\ registry' = b.registry
          /\ original' = Some([app_config |-> cfg, keys |-> DOMAIN b.metrics])
    /\ app_config' = cfg
    /\ builds' = builds + 1
    /\ built' = Some(cfg)
    /\ fcall' = FCall("__init__", None, {}, FALSE)
    /\ UNCHANGED <<lookup, samples, rebuild, notFactoryVars>>

GetMetric(key) ==
    /\ fstate = "constructed"
    /\ rebuild.pc = "idle"
    /\ lookup' = [key |-> key, ret |-> get_metric(metrics, key)]
    /\ fcall' = FCall("get_metric", Some(key), {}, FALSE)
    /\ UNCHANGED <<fstate, app_config, metrics, registry, builds, samples, original,
                   built, rebuild, notFactoryVars>>

\* one cache configuration beside the factory
FactorySpecInit ==
    /\ Init
    /\ max_size = MaxCap
    /\ ttl_seconds = MaxTtl

NextFactory ==
    \/ \E cfg \in AppConfigs : Construct(cfg)
    \/ \E key \in LookupKeys : GetMetric(key)

SpecFactory == FactorySpecInit /\ [][NextFactory]_vars

\* ------------------------------------------- MetricsFactory, the life cycle
MaxBuilds == 3
MaxCount == 2
\* the values a gauge is set to
GaugeValues == {150, 200}
\* the keys the writers are called with: a gauge no flag gates, a gauge of the
\* 52-week family, a counter and a histogram of the debug family, and a key
\* of no definition
WriteKeys ==
    {"stock_price", "stock_52week_high", "stock_fetch_errors",
     "stock_fetch_duration", "financial_price"}
\* the instruments whose clear() is made to fail, one at a time
FailingSets == {{}, {"stock_price"}, {"stock_fetch_errors"}}
\* the app_config the written factory is built with: none, and both flags off
WriterConfigs == {None, Some(Flags(Some(FALSE), Some(FALSE)))}
\* the app_config objects whose flags are changed after construction
LifecycleConfigs ==
    {Some(Flags(r, d)) : r \in {Some(TRUE), Some(FALSE)}, d \in {Some(TRUE), Some(FALSE)}}

\* the keys of the table in the order _create_metrics inserts them, which is
\* the order self.metrics.values() iterates in
RECURSIVE KeysIn(_)
KeysIn(defs) == IF defs = <<>> THEN <<>> ELSE <<Head(defs).key>> \o KeysIn(Tail(defs))
KeyOrder(config) ==
    KeysIn(config.gauges) \o KeysIn(config.counters) \o KeysIn(config.histograms)

\* the instruments of the map
InstrumentsOf(m) == {m[k] : k \in DOMAIN m}

\* what a writer or a bulk operation leaves: the samples, and whether it raised
Outcome(smp, raised) == [samples |-> smp, raised |-> raised]

\* metric.labels(**labels).set(value), .inc(), and metric.clear()
SetSample(smp, inst, value) ==
    [i \in DOMAIN smp \cup {inst} |-> IF i = inst THEN value ELSE smp[i]]
IncSample(smp, inst) ==
    SetSample(smp, inst, IF inst \in DOMAIN smp THEN smp[inst] + 1 ELSE 1)
ClearSample(smp, inst) == [i \in DOMAIN smp \ {inst} |-> smp[i]]

\* (a variant: the `metric is not None` test forgotten; None has no labels())
_set_gauge_metric_unchecked(metric, value, smp) ==
    IF metric = None THEN Outcome(smp, TRUE)
    ELSE IF metric[1].kind = "Gauge" THEN Outcome(SetSample(smp, metric[1], value), FALSE)
    ELSE Outcome(smp, FALSE)

\* if metric is not None and isinstance(metric, Gauge): metric.labels(...).set(value)
_set_gauge_metric(metric, value, smp) ==
    IF metric # None /\ metric[1].kind = "Gauge"
    THEN Outcome(SetSample(smp, metric[1], value), FALSE)
    ELSE Outcome(smp, FALSE)

\* if metric is not None and isinstance(metric, Counter): metric.labels(...).inc()
_increment_counter_metric(metric, smp) ==
    IF metric # None /\ metric[1].kind = "Counter"
    THEN Outcome(IncSample(smp, metric[1]), FALSE)
    ELSE Outcome(smp, FALSE)

\* the samples once the loop of clear_all_metrics has been through the first
\* n keys of the map, clear() failing for the instruments of `failing` (a
\* clear() that raises leaves its instrument as it was)
ClearThrough(keys, m, smp, failing, n) ==
    LET cleared == {m[keys[i]] : i \in {x \in 1..n : keys[x] \in DOMAIN m \ failing}}
    IN [inst \in DOMAIN smp \ cleared |-> smp[inst]]

\* the positions in the loop at which clear() raises
Failures(keys, m, failing) == {i \in 1..Len(keys) : keys[i] \in DOMAIN m \cap failing}

\* (a variant: no try around metric.clear(); the first failure ends the loop
\* and leaves the call)
ClearEachNoTry(keys, m, smp, failing) ==
    LET f == Failures(keys, m, failing)
    IN IF f = {} THEN Outcome(ClearThrough(keys, m, smp, failing, Len(keys)), FALSE)
       ELSE Outcome(ClearThrough(keys, m, smp, failing,
                                 CHOOSE i \in f : \A x \in f : i <= x), TRUE)

\* for metric in self.metrics.values(): try: metric.clear() except Exception: pass
ClearEach(keys, m, smp, failing) ==
    Outcome(ClearThrough(keys, m, smp, failing, Len(keys)), FALSE)

\* (a variant: metric.clear() taken for the removal of the instrument's entry)
clear_all_metrics_dropping_map(m, smp, failing) ==
    [metrics |-> <<>>,
     outcome |-> ClearEach(KeyOrder(DEFAULT_METRICS_CONFIG), m, smp, failing)]

clear_all_metrics(m, smp, failing) ==
    [metrics |-> m,
     outcome |-> ClearEach(KeyOrder(DEFAULT_METRICS_CONFIG), m, smp, failing)]

\* (a variant: self.metrics.clear() forgotten)
unregister_all_metrics_keeping_map(m, reg) ==
    [metrics |-> m, registry |-> reg \ InstrumentsOf(m), raised |-> FALSE]

\* for metric in self.metrics.values(): try: self.registry.unregister(metric)
\* except: pass (unregister raises KeyError for an instrument the collector
\* does not hold); then self.metrics.clear()
unregister_all_metrics(m, reg) ==
    [metrics |-> <<>>, registry |-> reg \ InstrumentsOf(m), raised |-> FALSE]

\* (a variant: the instruments not unregistered before they are created again)
recreate_metrics_without_unregister(m, reg, cfg, gen) ==
    _create_metrics(DEFAULT_METRICS_CONFIG, cfg, Build(<<>>, reg, FALSE, gen))

\* (a variant: the new instruments added to the map of the old ones)
recreate_metrics_into_old_map(m, reg, cfg, gen) ==
    _create_metrics(DEFAULT_METRICS_CONFIG, cfg,
                    Build(m, unregister_all_metrics(m, reg).registry, FALSE, gen))

\* self.unregister_all_metrics(); self._create_metrics()
recreate_metrics(m, reg, cfg, gen) ==
    LET u == unregister_all_metrics(m, reg)
    IN _create_metrics(DEFAULT_METRICS_CONFIG, cfg,
                       Build(u.metrics, u.registry, FALSE, gen))

Ready == fstate = "constructed" /\ rebuild.pc = "idle"

\* metric = metrics_factory.get_metric(key); self._set_gauge_metric(metric, labels, value)
SetGaugeMetric(key, value) ==
    /\ Ready
    /\ LET o == _set_gauge_metric(get_metric(metrics, key), value, samples)
       IN /\ samples' = o.samples
          /\ fcall' = FCall("_set_gauge_metric", Some(key), {}, o.raised)
    /\ UNCHANGED <<fstate, app_config, metrics, registry, lookup, builds, original,
                   built, rebuild, notFactoryVars>>

\* error_metric = metrics_factory.get_metric(key); self._increment_counter_metric(...)
IncrementCounterMetric(key) ==
    /\ Ready
    /\ LET metric == get_metric(metrics, key)
           o == _increment_counter_metric(metric, samples)
       IN /\ metric # None /\ metric[1] \in DOMAIN samples => samples[metric[1]] < MaxCount
          /\ samples' = o.samples
          /\ fcall' = FCall("_increment_counter_metric", Some(key), {}, o.raised)
    /\ UNCHANGED <<fstate, app_config, metrics, registry, lookup, builds, original,
                   built, rebuild, notFactoryVars>>

\* factory.clear_all_metrics(), the clear() of the instruments of `failing` raising
ClearAllMetrics(failing) ==
    /\ Ready
    /\ failing \subseteq DOMAIN metrics
    /\ LET c == clear_all_metrics(metrics, samples, failing)
       IN /\ metrics' = c.metrics
          /\ samples' = c.outcome.samples
          /\ fcall' = FCall("clear_all_metrics", None, failing, c.outcome.raised)
    /\ UNCHANGED <<fstate, app_config, registry, lookup, builds, original, built,
                   rebuild, notFactoryVars>>

UnregisterAllMetrics ==
    /\ Ready
    /\ LET u == unregister_all_metrics(metrics, registry)
       IN /\ metrics' = u.metrics
          /\ registry' = u.registry
          /\ fcall' = FCall("unregister_all_metrics", None, {}, u.raised)
    /\ UNCHANGED <<fstate, app_config, samples, lookup, builds, original, built,
                   rebuild, notFactoryVars>>

RecreateMetrics ==
    /\ Ready
    /\ builds < MaxBuilds
    /\ LET b == recreate_metrics(metrics, registry, app_config, builds + 1)
       IN /\ metrics' = b.metrics
          /\ registry' = b.registry
          /\ fcall' = FCall("recreate_metrics", None, {}, b.raised)
    /\ builds' = builds + 1
    /\ built' = Some(app_config)
    /\ UNCHANGED <<fstate, app_config, samples, lookup, original, rebuild, notFactoryVars>>

\* a feature flag of the app_config object is given another value
SetFlags(cfg) ==
    /\ Ready
    /\ app_config # None /\ cfg # app_config
    /\ app_config' = cfg
    /\ fcall' = FCall("set_flags", None, {}, FALSE)
    /\ UNCHANGED <<fstate, metrics, registry, lookup, builds, samples, original,
                   built, rebuild, notFactoryVars>>

\* the writers and clear_all_metrics on a constructed factory
NextWriters ==
    \/ \E cfg \in WriterConfigs : Construct(cfg)
    \/ \E key \in WriteKeys : GetMetric(key)
    \/ \E key \in WriteKeys, value \in GaugeValues : SetGaugeMetric(key, value)
    \/ \E key \in WriteKeys : IncrementCounterMetric(key)
    \/ \E failing \in FailingSets : ClearAllMetrics(failing)

SpecWriters == FactorySpecInit /\ [][NextWriters]_vars

\* unregister_all_metrics and recreate_metrics, the flags changing in between
NextRebuild ==
    \/ \E cfg \in LifecycleConfigs : Construct(cfg)
    \/ ClearAllMetrics({})
    \/ UnregisterAllMetrics
    \/ RecreateMetrics
    \/ \E cfg \in LifecycleConfigs : SetFlags(cfg)

SpecRebuild == FactorySpecInit /\ [][NextRebuild]_vars

\* ------------------- MetricsFactory, recreate_metrics beside a metric writer
\* No lock guards self.metrics: recreate_metrics runs statement by statement
\* in one thread while another looks an instrument up and writes to it.
\* the keys the concurrent writer looks up: the first and the last of the table
ReaderKeys == {"stock_price", "crypto_fetch_duration"}
\* the app_config of the factory rebuilt beside the writer
RebuildConfigs == {None, Some(Flags(Some(TRUE), Some(TRUE)))}

\* the definitions of the table with their kind, in the order of _create_metrics
RECURSIVE Tagged(_, _)
Tagged(kind, defs) ==
    IF defs = <<>> THEN <<>>
    ELSE <<[kind |-> kind, def |-> Head(defs)]>> \o Tagged(kind, Tail(defs))
CreateOrder(config) ==
    Tagged("Gauge", config.gauges) \o Tagged("Counter", config.counters)
        \o Tagged("Histogram", config.histograms)

\* the keys of the map in the order self.metrics.values() yields them
ValuesOrder(m) == SelectSeq(KeyOrder(DEFAULT_METRICS_CONFIG), LAMBDA k : k \in DOMAIN m)

Rebuild(pc, todo) == [pc |-> pc, todo |-> todo, reader |-> rebuild.reader]

\* recreate_metrics(): entering unregister_all_metrics
RecreateBegin ==
    /\ Ready
    /\ builds < MaxBuilds
    /\ rebuild' = Rebuild("unregister", ValuesOrder(metrics))
    /\ UNCHANGED <<fstate, app_config, metrics, registry, lookup, builds, samples,
                   fcall, original, built, notFactoryVars>>

\* try: self.registry.unregister(metric) except: pass, for the next instrument
RecreateUnregisterOne ==
    /\ rebuild.pc = "unregister" /\ rebuild.todo # <<>>
    /\ registry' = registry \ {metrics[Head(rebuild.todo)]}
    /\ rebuild' = Rebuild("unregister", Tail(rebuild.todo))
    /\ UNCHANGED <<fstate, app_config, metrics, lookup, builds, samples, fcall,
                   original, built, notFactoryVars>>

\* self.metrics.clear(), then entering _create_metrics
RecreateClear ==
    /\ rebuild.pc = "unregister" /\ rebuild.todo = <<>>
    /\ metrics' = <<>>
    /\ rebuild' = Rebuild("create", CreateOrder(DEFAULT_METRICS_CONFIG))
    /\ UNCHANGED <<fstate, app_config, registry, lookup, builds, samples, fcall,
                   original, built, notFactoryVars>>

\* one turn of a loop of _create_metrics
RecreateCreateOne ==
    /\ rebuild.pc = "create" /\ rebuild.todo # <<>>
    /\ LET t == Head(rebuild.todo)
           b == IF _should_create_metric(t.def.name, app_config)
                THEN CreateOne(t.kind, t.def, Build(metrics, registry, FALSE, builds + 1))
                ELSE Build(metrics, registry, FALSE, builds + 1)
       IN /\ metrics' = b.metrics
          /\ registry' = b.registry
          /\ fstate' = IF b.raised THEN "raised" ELSE fstate
          /\ rebuild' = IF b.raised THEN Rebuild("idle", <<>>)
                         ELSE Rebuild("create", Tail(rebuild.todo))
    /\ UNCHANGED <<app_config, lookup, builds, samples, fcall, original, built,
                   notFactoryVars>>

\* recreate_metrics() returns
RecreateEnd ==
    /\ rebuild.pc = "create" /\ rebuild.todo = <<>>
    /\ rebuild' = Rebuild("idle", <<>>)
    /\ builds' = builds + 1
    /\ built' = Some(app_config)
    /\ fcall' = FCall("recreate_metrics", None, {}, FALSE)
    /\ UNCHANGED <<fstate, app_config, metrics, registry, lookup, samples, original,
                   notFactoryVars>>

\* the writer's thread: metric = metrics_factory.get_metric(key)
ReaderGetMetric(key) ==
    /\ fstate = "constructed"
    /\ rebuild.reader = "idle"
    /\ lookup' = [key |-> key, ret |-> get_metric(metrics, key)]
    /\ rebuild' = [rebuild EXCEPT !.reader = "looked"]
    /\ UNCHANGED <<fstate, app_config, metrics, registry, builds, samples, fcall,
                   original, built, notFactoryVars>>

\* the writer's thread: self._set_gauge_metric(metric, labels, value)
ReaderSetGauge(value) ==
    /\ rebuild.reader = "looked"
    /\ samples' = _set_gauge_metric(lookup.ret, value, samples).samples
    /\ rebuild' = [rebuild EXCEPT !.reader = "idle"]
    /\ UNCHANGED <<fstate, app_config, metrics, registry, lookup, builds, fcall,
                   original, built, notFactoryVars>>

NextRebuildConc ==
    \/ \E cfg \in RebuildConfigs : Construct(cfg)
    \/ RecreateBegin
    \/ RecreateUnregisterOne
    \/ RecreateClear
    \/ RecreateCreateOne
    \/ RecreateEnd
    \/ \E key \in ReaderKeys : ReaderGetMetric(key)
    \/ \E value \in GaugeValues : ReaderSetGauge(value)

SpecRebuildConc == FactorySpecInit /\ [][NextRebuildConc]_vars

\* C20: a get_metric(key) made while recreate_metrics() runs, for a key the
\* map holds before and after the rebuild, returns the old or the new
\* instrument, never absent.
C20_ConcurrentLookupFindsInstrument ==
    (/\ fstate = "constructed"
     /\ rebuild.reader = "looked"
     /\ lookup.key \in original[1].keys) => lookup.ret # None

\* ---------------------------------------------------- properties of the factory
\* the number of definitions of DEFAULT_METRICS_CONFIG
DefaultMetricCount == 43

\* the section of the table a key is defined in
SectionOf(config, key) ==
    IF \E i \in 1..Len(config.gauges) : config.gauges[i].key = key THEN "Gauge"
    ELSE IF \E i \in 1..Len(config.counters) : config.counters[i].key = key THEN "Counter"
    ELSE "Histogram"

\* C10: after construction the registry's key set is exactly the set of the
\* keys of the definitions of the table whose name passes
\* _should_create_metric; with no app_config every definition is created, 43
\* instruments for the default table; and every key is bound to an instrument
\* of the kind of its section.
C10_KeySetIsFilteredTable ==
    fstate = "constructed" =>
        /\ DOMAIN metrics = {d.key : d \in {x \in AllDefs(DEFAULT_METRICS_CONFIG) :
                                              _should_create_metric(x.name, app_config)}}
        /\ app_config = None =>
             /\ DOMAIN metrics = TableKeys
             /\ Cardinality(DOMAIN metrics) = DefaultMetricCount
        /\ \A key \in DOMAIN metrics :
             metrics[key].kind = SectionOf(DEFAULT_METRICS_CONFIG, key)

\* a factory built with no app_config holds the 43 instruments
C10_Witness ==
    /\ fstate = "constructed" /\ app_config = None
    /\ Cardinality(DOMAIN metrics) = DefaultMetricCount
    /\ lookup # None /\ lookup.ret # None

\* the keys of the fetch-duration / fetch-error family and of the 52-week family
DebugKeys ==
    {"stock_fetch_duration", "stock_fetch_errors", "forex_fetch_duration",
     "forex_fetch_errors", "index_fetch_duration", "index_fetch_errors",
     "crypto_fetch_duration", "crypto_fetch_errors"}
RangeKeys ==
    {"stock_52week_high", "stock_52week_low", "forex_52week_high",
     "forex_52week_low", "index_52week_high", "index_52week_low",
     "crypto_52week_high", "crypto_52week_low"}
\* the sizes the key set has with the range flag off, and with both flags off
RangeOffCount == 35
BothOffCount == 27

DebugOff == app_config # None /\ app_config[1].ENABLE_DEBUG_METRICS = Some(FALSE)
DebugOn == app_config # None /\ app_config[1].ENABLE_DEBUG_METRICS = Some(TRUE)
RangeOff == app_config # None /\ app_config[1].ENABLE_RANGE_METRICS = Some(FALSE)

\* the debug family is absent with the flag off, present with it on, and the
\* keys of no definition are absent
DebugFamilyFollowsFlag ==
    /\ DebugOff =>
         /\ DebugKeys \cap DOMAIN metrics = {}
         /\ (lookup # None /\ lookup.key \in DebugKeys \cup UnknownKeys) =>
                lookup.ret = None
    /\ DebugOn => DebugKeys \subseteq DOMAIN metrics

\* C11 as stated: with ENABLE_DEBUG_METRICS false the debug family is absent,
\* get_metric of "financial_fetch_duration" and "financial_fetch_errors" is
\* absent, and ALL keys outside the debug family are present; with the flag
\* true the debug family is present. (Refuted: with ENABLE_RANGE_METRICS false
\* as well, the 52-week keys are absent.)
C11_DebugOffKeepsAllOthers ==
    fstate = "constructed" =>
        /\ DebugFamilyFollowsFlag
        /\ DebugOff => (TableKeys \ DebugKeys) \subseteq DOMAIN metrics

\* C11 amended: with ENABLE_DEBUG_METRICS false the debug family is absent,
\* get_metric of the two financial_fetch keys is absent, and every key outside
\* the debug family that ENABLE_RANGE_METRICS does not filter out is present;
\* with the flag true the debug family is present.
C11_DebugOffKeepsOthersAllowed ==
    fstate = "constructed" =>
        /\ DebugFamilyFollowsFlag
        /\ DebugOff =>
             /\ ~RangeOff => (TableKeys \ DebugKeys) \subseteq DOMAIN metrics
             /\ RangeOff => DOMAIN metrics = TableKeys \ (DebugKeys \cup RangeKeys)

\* built with both flags off, and get_metric("financial_fetch_duration") was absent
C11_Witness ==
    /\ fstate = "constructed" /\ DebugOff /\ RangeOff
    /\ lookup # None /\ lookup.key = "financial_fetch_duration" /\ lookup.ret = None

\* C12 as stated: only the debug family is gated; every definition outside it,
\* the 52-week family included, is created whatever the flags. (Refuted: the
\* code gates the 52-week family by ENABLE_RANGE_METRICS.)
C12_OnlyDebugFamilyIsGated ==
    fstate = "constructed" => (TableKeys \ DebugKeys) \subseteq DOMAIN metrics

\* C12 amended: the debug family and the 52-week family are the only gated
\* ones: every definition outside both is created whatever the flags, and the
\* 52-week family is created unless ENABLE_RANGE_METRICS is false.
C12_OnlyDebugAndRangeFamiliesAreGated ==
    fstate = "constructed" =>
        /\ (TableKeys \ (DebugKeys \cup RangeKeys)) \subseteq DOMAIN metrics
        /\ ~RangeOff => RangeKeys \subseteq DOMAIN metrics
        /\ RangeOff => RangeKeys \cap DOMAIN metrics = {}

\* built with both flags off, and get_metric("stock_price") found the gauge
C12_Witness ==
    /\ fstate = "constructed" /\ DebugOff /\ RangeOff
    /\ lookup # None /\ lookup.key = "stock_price" /\ lookup.ret # None

\* C13: with ENABLE_RANGE_METRICS false the eight 52-week keys are absent and
\* every other definition the debug flag allows is created: 35 of the 43 with
\* ENABLE_DEBUG_METRICS true, 27 with both flags false.
C13_RangeOffRemovesEight ==
    (fstate = "constructed" /\ RangeOff) =>
        /\ Cardinality(RangeKeys) = DefaultMetricCount - RangeOffCount
        /\ RangeKeys \cap DOMAIN metrics = {}
        /\ ~DebugOff => /\ DOMAIN metrics = TableKeys \ RangeKeys
                        /\ Cardinality(DOMAIN metrics) = RangeOffCount
        /\ DebugOff => /\ DOMAIN metrics = TableKeys \ (RangeKeys \cup DebugKeys)
                       /\ Cardinality(DOMAIN metrics) = BothOffCount

\* built with the range flag off and the debug flag on: 35 instruments, and a
\* 52-week key looked up was absent
C13_Witness ==
    /\ fstate = "constructed" /\ RangeOff /\ DebugOn
    /\ Cardinality(DOMAIN metrics) = RangeOffCount
    /\ lookup # None /\ lookup.key \in RangeKeys /\ lookup.ret = None

\* a step of the factory that is the call `op`
FactoryCalled(op) == fcall'.op = op /\ fcall' # fcall

\* the flags in force when _create_metrics last ran
BuiltDebugOff ==
    /\ built # None /\ built[1] # None
    /\ built[1][1].ENABLE_DEBUG_METRICS = Some(FALSE)
BuiltRangeOff ==
    /\ built # None /\ built[1] # None
    /\ built[1][1].ENABLE_RANGE_METRICS = Some(FALSE)

\* a key of no definition, or of a definition a flag filtered out
AbsentKey(key) ==
    \/ key \in UnknownKeys
    \/ key \in DebugKeys /\ BuiltDebugOff
    \/ key \in RangeKeys /\ BuiltRangeOff

\* C14: get_metric(key) returns absent without raising for a key of no
\* definition and for a key a flag filtered out, and the metric writers
\* (_set_gauge_metric, _increment_counter_metric) write nothing and raise
\* nothing when the instrument they looked up is absent.
C14_AbsentIsSkipped ==
    [][/\ (FactoryCalled("get_metric") /\ AbsentKey(fcall'.key[1])) =>
             /\ lookup'.key = fcall'.key[1]
             /\ lookup'.ret = None
             /\ ~fcall'.raised
       /\ (/\ FactoryCalled("_set_gauge_metric") \/ FactoryCalled("_increment_counter_metric")
           /\ AbsentKey(fcall'.key[1])) =>
             /\ samples' = samples
             /\ ~fcall'.raised]_vars

\* a gauge write on the 52-week key the range flag filtered out, after the
\* lookup of that key returned absent
C14_Witness ==
    /\ fcall.op = "_set_gauge_metric" /\ fcall.key = Some("stock_52week_high")
    /\ ~fcall.raised /\ fcall.prev = "get_metric"
    /\ BuiltRangeOff
    /\ lookup # None /\ lookup.key = "stock_52week_high" /\ lookup.ret = None

\* C15: clear_all_metrics() leaves the key -> instrument map as it was (same
\* keys, same instruments) and every instrument registered in the collector;
\* the values the instruments hold are reset, and a gauge of the map accepts a
\* new value afterwards.
C15_ClearResetsValuesOnly ==
    [][/\ FactoryCalled("clear_all_metrics") =>
             /\ metrics' = metrics
             /\ registry' = registry
             /\ InstrumentsOf(metrics) \subseteq registry'
             /\ fstate' = fstate /\ app_config' = app_config
             /\ fcall'.failing = {} => DOMAIN samples' \cap InstrumentsOf(metrics) = {}
       /\ (/\ FactoryCalled("_set_gauge_metric")
           /\ fcall'.prev = "clear_all_metrics"
           /\ fcall'.key[1] \in DOMAIN metrics
           /\ metrics[fcall'.key[1]].kind = "Gauge") =>
             /\ metrics[fcall'.key[1]] \in DOMAIN samples'
             /\ samples'[metrics[fcall'.key[1]]] \in GaugeValues]_vars

\* clear_all_metrics() has just reset the values two instruments held
C15_Witness ==
    /\ fcall.op = "clear_all_metrics" /\ fcall.failing = {}
    /\ Cardinality(fcall.held) >= 2
    /\ fcall.held \subseteq InstrumentsOf(metrics)
    /\ samples = <<>>
    /\ Cardinality(DOMAIN metrics) = DefaultMetricCount

\* C16: when the clear() of one instrument raises, clear_all_metrics() still
\* clears every other instrument of the map and returns normally.
C16_ClearSurvivesAFailure ==
    [][(FactoryCalled("clear_all_metrics") /\ fcall'.failing # {}) =>
         /\ ~fcall'.raised
         /\ fstate' = "constructed"
         /\ \A key \in DOMAIN metrics \ fcall'.failing :
                metrics[key] \notin DOMAIN samples']_vars

\* the clear() of the stock_price gauge raised, and the counter that held a
\* value (it comes later in the map) holds none any more
C16_Witness ==
    /\ fcall.op = "clear_all_metrics" /\ fcall.failing = {"stock_price"}
    /\ ~fcall.raised
    /\ "stock_fetch_errors" \in DOMAIN metrics
    /\ metrics["stock_fetch_errors"] \in fcall.held
    /\ metrics["stock_fetch_errors"] \notin DOMAIN samples

\* C17: unregister_all_metrics() removes every instrument of the map from the
\* collector and leaves the map empty; called a second time, or on an empty
\* map, it does not raise and leaves the map empty.
C17_UnregisterEmptiesAndRepeats ==
    [][FactoryCalled("unregister_all_metrics") =>
         /\ metrics' = <<>>
         /\ InstrumentsOf(metrics) \cap registry' = {}
         /\ registry' \subseteq registry
         /\ ~fcall'.raised
         /\ fstate' = "constructed"]_vars

\* unregister_all_metrics() right after unregister_all_metrics(): nothing
\* raised, the map and the collector are empty
C17_Witness ==
    /\ fcall.op = "unregister_all_metrics" /\ fcall.prev = "unregister_all_metrics"
    /\ ~fcall.raised /\ fstate = "constructed"
    /\ metrics = <<>> /\ registry = {}

\* C18: recreate_metrics() with the flags of the construction yields the key
\* set of the construction, every key bound to an instrument created by this
\* call (none of those the map or the collector held before), registered in
\* the collector, and it raises no duplicate-registration error, also when
\* it is repeated.
C18_RecreateSameKeysNewInstruments ==
    [][(FactoryCalled("recreate_metrics") /\ Some(app_config) = Some(original[1].app_config)) =>
         /\ ~fcall'.raised
         /\ DOMAIN metrics' = original[1].keys
         /\ \A key \in DOMAIN metrics' :
                /\ metrics'[key] \notin InstrumentsOf(metrics) \cup registry
                /\ metrics'[key] \in registry'
         /\ Cardinality(InstrumentsOf(metrics')) = Cardinality(DOMAIN metrics')]_vars

\* recreate_metrics() right after recreate_metrics(), the flags those of the
\* construction: the key set of the construction, instruments of the third build
C18_Witness ==
    /\ fcall.op = "recreate_metrics" /\ fcall.prev = "recreate_metrics"
    /\ ~fcall.raised
    /\ original # None /\ app_config = original[1].app_config
    /\ DOMAIN metrics = original[1].keys /\ metrics # <<>>
    /\ \A key \in DOMAIN metrics : metrics[key].gen = MaxBuilds

\* C19: whatever clear_all_metrics, unregister_all_metrics and
\* recreate_metrics calls were made, the key set of the map is a subset of
\* the table filtered by the flags in force when the map was last built: a
\* rebuild after a flag change leaves no key the new flags filter out.
C19_KeySetWithinLastBuild ==
    fstate = "constructed" =>
        /\ DOMAIN metrics \subseteq TableKeys
        /\ BuiltRangeOff => DOMAIN metrics \cap RangeKeys = {}
        /\ BuiltDebugOff => DOMAIN metrics \cap DebugKeys = {}
        /\ fcall.op = "recreate_metrics" =>
             /\ built = Some(app_config)
             /\ DOMAIN metrics =
                    TableKeys \ ((IF BuiltRangeOff THEN RangeKeys ELSE {})
                                    \cup (IF BuiltDebugOff THEN DebugKeys ELSE {}))

\* constructed with the 52-week family, rebuilt after ENABLE_RANGE_METRICS was
\* set to false: the 52-week keys are gone
C19_Witness ==
    /\ fcall.op = "recreate_metrics"
    /\ original # None /\ RangeKeys \subseteq original[1].keys
    /\ RangeOff /\ BuiltRangeOff
    /\ metrics # <<>> /\ DOMAIN metrics \cap RangeKeys = {}

\* ------------------------------------------------------------ SymbolClassifier
\* The symbols the classifier is called with, each with its characters, so
\* that endswith and startswith look at the characters as Python does.
SymbolChars ==
    ("USDJPY=X" :> <<"U", "S", "D", "J", "P", "Y", "=", "X">>)
    @@ ("^X=X" :> <<"^", "X", "=", "X">>)
    @@ ("=X" :> <<"=", "X">>)
    @@ ("X" :> <<"X">>)
    @@ ("" :> <<>>)
    @@ ("^GSPC" :> <<"^", "G", "S", "P", "C">>)
    @@ ("998405.T" :> <<"9", "9", "8", "4", "0", "5", ".", "T">>)
    @@ ("BTC-USD" :> <<"B", "T", "C", "-", "U", "S", "D">>)
    @@ ("AAPL" :> <<"A", "A", "P", "L">>)
    @@ ("NEW-USD" :> <<"N", "E", "W", "-", "U", "S", "D">>)
Symbols == DOMAIN SymbolChars
\* the symbols add_crypto_symbol and add_index_symbol are called with
AddSymbols == {"AAPL", "NEW-USD", "BTC-USD", "USDJPY=X"}

endswith(symbol, suffix) ==
    LET c == SymbolChars[symbol]
    IN /\ Len(c) >= Len(suffix)
       /\ SubSeq(c, Len(c) - Len(suffix) + 1, Len(c)) = suffix
startswith(symbol, prefix) ==
    LET c == SymbolChars[symbol]
    IN /\ Len(c) >= Len(prefix)
       /\ SubSeq(c, 1, Len(prefix)) = prefix

is_forex_pair(symbol) == endswith(symbol, <<"=", "X">>)

\* (a variant: the prefix test forgotten)
is_index_by_list_only(symbol, indices) == symbol \in indices

is_index(symbol, indices) ==
    IF startswith(symbol, <<"^">>) THEN TRUE ELSE symbol \in indices

is_crypto(symbol, cryptos) == symbol \in cryptos

\* (a variant: the crypto test before the index test)
get_asset_type_crypto_first(symbol, cryptos, indices) ==
    IF is_forex_pair(symbol) THEN FOREX
    ELSE IF is_crypto(symbol, cryptos) THEN CRYPTO
    ELSE IF is_index(symbol, indices) THEN INDEX
    ELSE STOCK

\* (a variant: no else branch; the function falls off its end)
get_asset_type_without_default(symbol, cryptos, indices) ==
    IF is_forex_pair(symbol) THEN FOREX
    ELSE IF is_index(symbol, indices) THEN INDEX
    ELSE IF is_crypto(symbol, cryptos) THEN CRYPTO
    ELSE [type |-> "NoneType", value |-> "None"]

get_asset_type(symbol, cryptos, indices) ==
    IF is_forex_pair(symbol) THEN FOREX
    ELSE IF is_index(symbol, indices) THEN INDEX
    ELSE IF is_crypto(symbol, cryptos) THEN CRYPTO
    ELSE STOCK

\* (a variant: the symbol replaces the set)
add_symbol_replacing(set, symbol) == {symbol}

\* cls._KNOWN_...add(symbol)
add_symbol(set, symbol) == set \cup {symbol}

\* a call on the classifier: its name, symbol and result, and `was`: for an
\* addition the category of the symbol before it, for get_asset_type the
\* category the call picked for comparison returned for the same symbol
CCall(op, symbol, ret, was) == [op |-> op, symbol |-> symbol, ret |-> ret, was |-> was]
Category(symbol) ==
    get_asset_type(symbol, _KNOWN_CRYPTOCURRENCIES, _KNOWN_JAPANESE_INDICES)

\* a get_asset_type call in progress beside an addition: the category the
\* allow-lists give its symbol once the addition is made joins those it may
\* answer with
Beside(cryptos, indices) ==
    IF creader.pc \in {"index", "crypto"}
    THEN [creader EXCEPT !.valid = @ \cup {get_asset_type(creader.symbol, cryptos, indices)}]
    ELSE creader

GetAssetType(symbol) ==
    /\ LET t == get_asset_type(symbol, _KNOWN_CRYPTOCURRENCIES, _KNOWN_JAPANESE_INDICES)
       IN /\ ccall' = CCall("get_asset_type", symbol, Some(t),
                         IF symbol \in DOMAIN classified
                         THEN Some(classified[symbol]) ELSE None)
          /\ \/ classified' = classified
             \/ classified' = [x \in {symbol} |-> t]
    /\ UNCHANGED <<_KNOWN_CRYPTOCURRENCIES, _KNOWN_JAPANESE_INDICES, creader,
                   notClassifierVars>>

AddCryptoSymbol(symbol) ==
    /\ _KNOWN_CRYPTOCURRENCIES' = add_symbol(_KNOWN_CRYPTOCURRENCIES, symbol)
    /\ ccall' = CCall("add_crypto_symbol", symbol, None, Some(Category(symbol)))
    /\ classified' = <<>>
    /\ creader' = Beside(_KNOWN_CRYPTOCURRENCIES', _KNOWN_JAPANESE_INDICES)
    /\ UNCHANGED <<_KNOWN_JAPANESE_INDICES, notClassifierVars>>

AddIndexSymbol(symbol) ==
    /\ _KNOWN_JAPANESE_INDICES' = add_symbol(_KNOWN_JAPANESE_INDICES, symbol)
    /\ ccall' = CCall("add_index_symbol", symbol, None, Some(Category(symbol)))
    /\ classified' = <<>>
    /\ creader' = Beside(_KNOWN_CRYPTOCURRENCIES, _KNOWN_JAPANESE_INDICES')
    /\ UNCHANGED <<_KNOWN_CRYPTOCURRENCIES, notClassifierVars>>

NextClassifier ==
    \/ \E symbol \in Symbols : GetAssetType(symbol)
    \/ \E symbol \in AddSymbols : AddCryptoSymbol(symbol)
    \/ \E symbol \in AddSymbols : AddIndexSymbol(symbol)

SpecClassifier == FactorySpecInit /\ [][NextClassifier]_vars

\* ------------------------- SymbolClassifier, get_asset_type beside additions
\* No lock guards the allow-lists: get_asset_type runs test by test in one
\* thread while another adds symbols.
CReader(pc, symbol, ret, valid) ==
    [pc |-> pc, symbol |-> symbol, ret |-> ret, valid |-> valid]

\* get_asset_type(symbol) is entered: if cls.is_forex_pair(symbol)
ReaderForex(symbol) ==
    /\ creader.pc = "idle"
    /\ creader' = IF is_forex_pair(symbol)
                  THEN CReader("done", symbol, Some(FOREX), {Category(symbol)})
                  ELSE CReader("index", symbol, None, {Category(symbol)})
    /\ UNCHANGED <<_KNOWN_CRYPTOCURRENCIES, _KNOWN_JAPANESE_INDICES, ccall,
                   classified, notClassifierVars>>

\* elif cls.is_index(symbol)
ReaderIndex ==
    /\ creader.pc = "index"
    /\ creader' = IF is_index(creader.symbol, _KNOWN_JAPANESE_INDICES)
                  THEN [creader EXCEPT !.pc = "done", !.ret = Some(INDEX)]
                  ELSE [creader EXCEPT !.pc = "crypto"]
    /\ UNCHANGED <<_KNOWN_CRYPTOCURRENCIES, _KNOWN_JAPANESE_INDICES, ccall,
                   classified, notClassifierVars>>

\* elif cls.is_crypto(symbol) ... else
ReaderCrypto ==
    /\ creader.pc = "crypto"
    /\ creader' = [creader EXCEPT
                     !.pc = "done",
                     !.ret = IF is_crypto(creader.symbol, _KNOWN_CRYPTOCURRENCIES)
                             THEN Some(CRYPTO) ELSE Some(STOCK)]
    /\ UNCHANGED <<_KNOWN_CRYPTOCURRENCIES, _KNOWN_JAPANESE_INDICES, ccall,
                   classified, notClassifierVars>>

\* the caller has its result
ReaderReturn ==
    /\ creader.pc = "done"
    /\ creader' = CReader("idle", "", None, {})
    /\ UNCHANGED <<_KNOWN_CRYPTOCURRENCIES, _KNOWN_JAPANESE_INDICES, ccall,
                   classified, notClassifierVars>>

NextClassifierConc ==
    \/ \E symbol \in AddSymbols : ReaderForex(symbol)
    \/ ReaderIndex
    \/ ReaderCrypto
    \/ ReaderReturn
    \/ \E symbol \in AddSymbols : AddCryptoSymbol(symbol)
    \/ \E symbol \in AddSymbols : AddIndexSymbol(symbol)

SpecClassifierConc == FactorySpecInit /\ [][NextClassifierConc]_vars

\* C24: a get_asset_type(s) call running beside add_crypto_symbol /
\* add_index_symbol calls returns a category the allow-lists gave s at some
\* moment of the call: as they were before an addition or as they are after it.
C24_ConcurrentResultIsBeforeOrAfter ==
    creader.pc = "done" => creader.ret[1] \in creader.valid

\* ------------------------------------------------------------- asset handlers
\* what the methods of each handler class return; a tuple for the range keys
\* (high, low) and the change keys (previous close, change, change percent)
StockHandler ==
    [get_price_metric_key |-> Some("financial_price"),
     get_volume_metric_key |-> Some("financial_volume"),
     get_market_cap_metric_key |-> Some("financial_market_cap"),
     get_range_metric_keys |-> <<"financial_52week_high", "financial_52week_low">>,
     get_change_metric_keys |-> <<"financial_previous_close", "financial_price_change",
                                  "financial_price_change_percent">>,
     get_timestamp_metric_key |-> Some("financial_last_updated"),
     get_error_metric_key |-> Some("financial_fetch_errors"),
     should_update_volume |-> TRUE,
     should_update_market_metrics |-> TRUE]

\* (a variant: the forex handler copied from the stock handler, volume kept)
ForexHandlerWithVolume ==
    [StockHandler EXCEPT !.get_market_cap_metric_key = None,
                         !.should_update_market_metrics = FALSE]

ForexHandler ==
    [get_price_metric_key |-> Some("financial_price"),
     get_volume_metric_key |-> None,
     get_market_cap_metric_key |-> None,
     get_range_metric_keys |-> <<"financial_52week_high", "financial_52week_low">>,
     get_change_metric_keys |-> <<"financial_previous_close", "financial_price_change",
                                  "financial_price_change_percent">>,
     get_timestamp_metric_key |-> Some("financial_last_updated"),
     get_error_metric_key |-> Some("financial_fetch_errors"),
     should_update_volume |-> FALSE,
     should_update_market_metrics |-> FALSE]

\* (a variant: the index handler updating the market metrics)
IndexHandlerWithMarketMetrics ==
    [StockHandler EXCEPT !.get_market_cap_metric_key = None]

IndexHandler ==
    [get_price_metric_key |-> Some("financial_price"),
     get_volume_metric_key |-> Some("financial_volume"),
     get_market_cap_metric_key |-> None,
     get_range_metric_keys |-> <<"financial_52week_high", "financial_52week_low">>,
     get_change_metric_keys |-> <<"financial_previous_close", "financial_price_change",
                                  "financial_price_change_percent">>,
     get_timestamp_metric_key |-> Some("financial_last_updated"),
     get_error_metric_key |-> Some("financial_fetch_errors"),
     should_update_volume |-> TRUE,
     should_update_market_metrics |-> FALSE]

CryptoHandler ==
    [get_price_metric_key |-> Some("financial_price"),
     get_volume_metric_key |-> Some("financial_volume"),
     get_market_cap_metric_key |-> Some("financial_market_cap"),
     get_range_metric_keys |-> <<"financial_52week_high", "financial_52week_low">>,
     get_change_metric_keys |-> <<"financial_previous_close", "financial_price_change",
                                  "financial_price_change_percent">>,
     get_timestamp_metric_key |-> Some("financial_last_updated"),
     get_error_metric_key |-> Some("financial_fetch_errors"),
     should_update_volume |-> TRUE,
     should_update_market_metrics |-> TRUE]

\* the methods of a handler instance
Methods(handler) ==
    IF handler.class = "StockHandler" THEN StockHandler
    ELSE IF handler.class = "ForexHandler" THEN ForexHandler
    ELSE IF handler.class = "IndexHandler" THEN IndexHandler
    ELSE CryptoHandler

\* the metric keys a handler declares, the absent ones left out
DeclaredKeys(m) ==
    {k[1] : k \in {m.get_price_metric_key, m.get_volume_metric_key,
                   m.get_market_cap_metric_key, m.get_timestamp_metric_key,
                   m.get_error_metric_key} \ {None}}
        \cup {m.get_range_metric_keys[i] : i \in 1..2}
        \cup {m.get_change_metric_keys[i] : i \in 1..3}

\* what get_handler is called with besides the members of AssetType: the
\* value of a member, another string, None
Unsupported ==
    {[type |-> "str", value |-> "stock"], [type |-> "str", value |-> "bond"],
     [type |-> "NoneType", value |-> "None"]}

\* (a variant: another instance of the class on every call)
get_handler_new_instance(handlers, asset_type) ==
    IF asset_type \notin DOMAIN handlers
    THEN [raised |-> Some("ValueError"), ret |-> None]
    ELSE [raised |-> None, ret |-> Some(Handler(handlers[asset_type].class, 0))]

\* (a variant: the stock handler for what the table does not hold)
get_handler_defaulting(handlers, asset_type) ==
    IF asset_type \notin DOMAIN handlers
    THEN [raised |-> None, ret |-> Some(handlers[STOCK])]
    ELSE [raised |-> None, ret |-> Some(handlers[asset_type])]

get_handler(handlers, asset_type) ==
    IF asset_type \notin DOMAIN handlers
    THEN [raised |-> Some("ValueError"), ret |-> None]
    ELSE [raised |-> None, ret |-> Some(handlers[asset_type])]

\* AssetHandlerFactory.get_handler(arg); `again` is what the call before it
\* returned when it had the same argument
GetHandler(arg) ==
    /\ LET r == get_handler(_handlers, arg)
       IN hcall' = [op |-> "get_handler", arg |-> arg, ret |-> r.ret,
                    raised |-> r.raised,
                    again |-> IF hcall.op = "get_handler" /\ hcall.arg = arg
                              THEN hcall.ret ELSE None]
    /\ UNCHANGED <<_handlers, cacheVars, factoryVars, classifierVars, fetcherVars,
                   viewVars>>

\* handler = AssetHandlerFactory.get_handler(asset_type); for a key the
\* handler declares: metrics_factory.get_metric(key)
ResolveHandlerKey(asset_type) ==
    \E key \in DeclaredKeys(Methods(get_handler(_handlers, asset_type).ret[1])) :
        GetMetric(key)

NextHandlers ==
    \/ \E arg \in AssetType \cup Unsupported : GetHandler(arg)
    \/ \E cfg \in RebuildConfigs : Construct(cfg)
    \/ \E asset_type \in AssetType : ResolveHandlerKey(asset_type)

SpecHandlers == FactorySpecInit /\ [][NextHandlers]_vars

\* -------------------------------------------------- properties of the classifier
\* the symbols that end with "=X", and those that start with "^"
ForexSymbols == {"USDJPY=X", "^X=X", "=X"}
CaretSymbols == {"^X=X", "^GSPC"}

\* C21: get_asset_type(symbol) is FOREX if the symbol ends with "=X";
\* otherwise INDEX if it starts with "^" or is in the index allow-list;
\* otherwise CRYPTO if it is in the crypto allow-list; otherwise STOCK; the
\* earliest rule that matches decides.
C21_FixedPrecedence ==
    ccall.op = "get_asset_type" =>
        ccall.ret = Some(IF ccall.symbol \in ForexSymbols THEN FOREX
                         ELSE IF \/ ccall.symbol \in CaretSymbols
                                 \/ ccall.symbol \in _KNOWN_JAPANESE_INDICES THEN INDEX
                         ELSE IF ccall.symbol \in _KNOWN_CRYPTOCURRENCIES THEN CRYPTO
                         ELSE STOCK)

\* a symbol in both allow-lists was classified INDEX
C21_Witness ==
    /\ ccall.op = "get_asset_type" /\ ccall.symbol = "BTC-USD"
    /\ "BTC-USD" \in _KNOWN_CRYPTOCURRENCIES \cap _KNOWN_JAPANESE_INDICES
    /\ ccall.ret = Some(INDEX)

\* a step that is the call `op` on the classifier
ClassifierCalled(op) == ccall'.op = op /\ ccall' # ccall

\* C22: get_asset_type returns one of the four categories for every symbol
\* (the empty string included), and a call returns what an earlier call with
\* the same symbol returned when no add_crypto_symbol / add_index_symbol was
\* made in between.
C22_TotalAndRepeatable ==
    [][ClassifierCalled("get_asset_type") =>
         /\ ccall'.ret # None
         /\ ccall'.ret[1] \in AssetType
         /\ ccall'.symbol \in DOMAIN classified =>
                ccall'.ret[1] = classified[ccall'.symbol]]_vars

\* the empty string classified twice with no addition in between: STOCK both times
C22_Witness ==
    /\ ccall.op = "get_asset_type" /\ ccall.symbol = ""
    /\ ccall.was = Some(STOCK) /\ ccall.ret = Some(STOCK)

\* the category of a symbol once the step is made
CategoryAfter(symbol) ==
    get_asset_type(symbol, _KNOWN_CRYPTOCURRENCIES', _KNOWN_JAPANESE_INDICES')

\* C23: the allow-lists only grow: a symbol that is not STOCK never becomes
\* STOCK again and a FOREX symbol stays FOREX; after add_crypto_symbol(s) for
\* a symbol s that was STOCK, s is CRYPTO, and after add_index_symbol(s) for
\* such s, s is INDEX.
C23_AllowListsOnlyGrow ==
    [][/\ _KNOWN_CRYPTOCURRENCIES \subseteq _KNOWN_CRYPTOCURRENCIES'
       /\ _KNOWN_JAPANESE_INDICES \subseteq _KNOWN_JAPANESE_INDICES'
       /\ \A s \in Symbols :
             /\ Category(s) # STOCK => CategoryAfter(s) # STOCK
             /\ Category(s) = FOREX => CategoryAfter(s) = FOREX
       /\ (ClassifierCalled("add_crypto_symbol") /\ ccall'.was = Some(STOCK)) =>
             CategoryAfter(ccall'.symbol) = CRYPTO
       /\ (ClassifierCalled("add_index_symbol") /\ ccall'.was = Some(STOCK)) =>
             CategoryAfter(ccall'.symbol) = INDEX]_vars

\* add_crypto_symbol("AAPL") was called while AAPL was STOCK
C23_Witness ==
    /\ ccall.op = "add_crypto_symbol" /\ ccall.symbol = "AAPL"
    /\ ccall.was = Some(STOCK)
    /\ Category("AAPL") = CRYPTO

\* ---------------------------------------------------- properties of the handlers
\* get_handler has returned a handler
Dispatched == hcall.op = "get_handler" /\ hcall.ret # None

\* C25: the volume key of the dispatched handler is absent only for FOREX,
\* its market-cap key only for FOREX and INDEX; STOCK and CRYPTO have both
\* keys, INDEX has the volume key.
C25_OptionalKeysByCategory ==
    Dispatched =>
        LET m == Methods(hcall.ret[1])
        IN /\ (m.get_volume_metric_key = None) <=> (hcall.arg = FOREX)
           /\ (m.get_market_cap_metric_key = None) <=> (hcall.arg \in {FOREX, INDEX})

\* the handler dispatched for INDEX: a volume key, no market-cap key
C25_Witness ==
    /\ Dispatched /\ hcall.arg = INDEX
    /\ Methods(hcall.ret[1]).get_volume_metric_key # None
    /\ Methods(hcall.ret[1]).get_market_cap_metric_key = None

\* C26: should_update_volume() is False for FOREX and True for STOCK, INDEX
\* and CRYPTO; should_update_market_metrics() is False for FOREX and INDEX
\* and True for STOCK and CRYPTO.
C26_UpdateFlagsByCategory ==
    Dispatched =>
        LET m == Methods(hcall.ret[1])
        IN /\ m.should_update_volume = (hcall.arg \in {STOCK, INDEX, CRYPTO})
           /\ m.should_update_market_metrics = (hcall.arg \in {STOCK, CRYPTO})

\* the handler dispatched for INDEX: volume updated, market metrics not
C26_Witness ==
    /\ Dispatched /\ hcall.arg = INDEX
    /\ Methods(hcall.ret[1]).should_update_volume
    /\ ~Methods(hcall.ret[1]).should_update_market_metrics

\* the class dedicated to a category
HandlerClassOf(asset_type) ==
    IF asset_type = STOCK THEN "StockHandler"
    ELSE IF asset_type = FOREX THEN "ForexHandler"
    ELSE IF asset_type = INDEX THEN "IndexHandler"
    ELSE "CryptoHandler"

\* C27: get_handler is defined for each of the four AssetType values, returns
\* the handler of the class dedicated to the category, and returns the same
\* instance on every call for the same category; no instance serves two
\* categories.
C27_OneHandlerPerCategory ==
    /\ DOMAIN _handlers = AssetType
    /\ \A a, b \in AssetType : _handlers[a] = _handlers[b] => a = b
    /\ (hcall.op = "get_handler" /\ hcall.arg \in AssetType) =>
          /\ hcall.raised = None
          /\ hcall.ret # None
          /\ hcall.ret[1].class = HandlerClassOf(hcall.arg)
          /\ hcall.ret[1] = _handlers[hcall.arg]
          /\ hcall.again # None => hcall.again = hcall.ret

\* get_handler(AssetType.CRYPTO) twice in a row: the same CryptoHandler
C27_Witness ==
    /\ Dispatched /\ hcall.arg = CRYPTO
    /\ hcall.again = hcall.ret
    /\ hcall.ret[1].class = "CryptoHandler"

\* C28: get_handler with a value that is not a supported category raises
\* ValueError and returns no handler, and the dispatch table is never changed.
C28_UnsupportedRaisesValueError ==
    [][/\ _handlers' = _handlers
       /\ (hcall' # hcall /\ hcall'.arg \in Unsupported) =>
             /\ hcall'.raised = Some("ValueError")
             /\ hcall'.ret = None]_vars

\* get_handler("stock"), the value of a member and not the member, raised
C28_Witness ==
    /\ hcall.op = "get_handler" /\ hcall.arg = [type |-> "str", value |-> "stock"]
    /\ hcall.raised = Some("ValueError") /\ hcall.ret = None

\* the keys C29 names for each category: price, volume, market cap, 52-week
\* high and low, timestamp, error (None where the claim names none)
NamedKeys(asset_type) ==
    IF asset_type = STOCK
    THEN <<Some("stock_price"), Some("stock_volume"), Some("stock_market_cap"),
           Some("stock_52week_high"), Some("stock_52week_low"),
           Some("stock_last_updated"), Some("stock_fetch_errors")>>
    ELSE IF asset_type = FOREX
    THEN <<Some("forex_rate"), None, None,
           Some("forex_52week_high"), Some("forex_52week_low"),
           Some("forex_last_updated"), Some("forex_fetch_errors")>>
    ELSE IF asset_type = INDEX
    THEN <<Some("index_value"), Some("index_volume"), None, None, None, None, None>>
    ELSE <<Some("crypto_price"), Some("crypto_volume"), Some("crypto_market_cap"),
           None, None, None, None>>

\* C29: each handler returns the metric keys of its own category
\* ("stock_price", "stock_volume", ... for StockHandler, "forex_rate", ... for
\* ForexHandler, "index_value", "index_volume" for IndexHandler,
\* "crypto_price", "crypto_volume", "crypto_market_cap" for CryptoHandler).
C29_HandlerKeysAreOfItsCategory ==
    Dispatched =>
        LET m == Methods(hcall.ret[1])
            got == <<m.get_price_metric_key, m.get_volume_metric_key,
                     m.get_market_cap_metric_key, Some(m.get_range_metric_keys[1]),
                     Some(m.get_range_metric_keys[2]), m.get_timestamp_metric_key,
                     m.get_error_metric_key>>
        IN \A i \in 1..Len(got) :
              NamedKeys(hcall.arg)[i] # None => got[i] = NamedKeys(hcall.arg)[i]

\* C30: every metric key a handler declares resolves through get_metric to
\* an instrument of a registry built from the default table with no flag
\* disabled; in particular "financial_price" and "financial_fetch_errors" do.
C30_HandlerKeysResolve ==
    (/\ fstate = "constructed" /\ ~DebugOff /\ ~RangeOff
     /\ lookup # None
     /\ \E t \in AssetType : lookup.key \in DeclaredKeys(Methods(_handlers[t])))
        => lookup.ret # None

\* ------------------------------------------- properties of the reading methods
ReadOps == {"size", "get_stats", "len", "contains", "keys", "eq"}

\* C34: size(), get_stats(), len(), the membership test, keys() / iteration
\* and the comparison with a dict leave the stored entries, expired ones
\* included, their timestamps and their order as they were; size() counts
\* every stored entry, active_items and len() count the stored entries less
\* exactly the expired ones.
C34_ReadsDoNotMutate ==
    [][(now' = now /\ last'.op \in ReadOps) =>
          /\ cache' = cache
          /\ last'.op = "size" => last'.ret[1] = Len(cache)
          /\ last'.op = "len" =>
                last'.ret[1] = Len(cache) - Cardinality(ExpiredKeys(cache, now, ttl_seconds))
          /\ last'.op = "get_stats" =>
                /\ last'.ret[1].raised = None
                /\ last'.ret[1].stats[1].total_items = Len(cache)
                /\ last'.ret[1].stats[1].active_items =
                      Len(cache) - Cardinality(ExpiredKeys(cache, now, ttl_seconds))
          /\ last'.op = "contains" =>
                last'.ret[1] = (last'.key[1] \in KeysOf(cache)
                                   \ ExpiredKeys(cache, now, ttl_seconds))
          /\ last'.op = "keys" =>
                {last'.ret[1][i] : i \in 1..Len(last'.ret[1])} =
                    KeysOf(cache) \ ExpiredKeys(cache, now, ttl_seconds)]_vars

\* len() returned 1 on a cache that stores two entries, one of them expired,
\* and still stores both
C34_Witness ==
    /\ last.op = "len" /\ last.ret = Some(1)
    /\ Len(cache) = 2
    /\ Cardinality(ExpiredKeys(cache, now, ttl_seconds)) = 1

\* C35: with max_size = 0 get_stats() does not fail, both ratios are 0
\* whatever is stored, and total_items, active_items and expired_items are
\* the actual counts, total_items = active_items + expired_items.
C35_ZeroMaxSizeStats ==
    [][(now' = now /\ last'.op = "get_stats" /\ max_size = 0) =>
          LET r == last'.ret[1]
          IN /\ r.raised = None
             /\ r.stats # None
             /\ r.stats[1].memory_usage_ratio.num = 0
             /\ r.stats[1].storage_usage_ratio.num = 0
             /\ r.stats[1].max_size = 0
             /\ r.stats[1].total_items = Len(cache)
             /\ r.stats[1].expired_items =
                   Cardinality(ExpiredKeys(cache, now, ttl_seconds))
             /\ r.stats[1].total_items =
                   r.stats[1].active_items + r.stats[1].expired_items]_vars

\* get_stats() on a cache of max_size 0 that stores an expired entry and one
\* that is not
C35_Witness ==
    /\ last.op = "get_stats" /\ max_size = 0
    /\ last.ret[1].raised = None
    /\ last.ret[1].stats[1].total_items = 2
    /\ last.ret[1].stats[1].active_items = 1
    /\ last.ret[1].stats[1].expired_items = 1

\* C40: the capacity invariant in the configuration max_size = 0: a put
\* does not leave more stored entries than max_size.
C40_ZeroCapacityWithinMaxSize ==
    (max_size = 0 /\ last.op = "put") => Len(cache) <= max_size

\* ------------------------------------------------------------ StockDataFetcher
\* the symbols get_stock_data is called with
FetchSymbols == {"AAPL", "USDJPY=X"}

\* dict.get(key, default)
DictGet(d, key, default) == IF key \in DOMAIN d THEN d[key] ELSE default

\* what the provider does for a symbol: ticker.info is a dict with the market
\* data ("full"), the empty dict ("empty"), or yf.Ticker / .info raises ("raise")
ProviderOutcomes == {"full", "empty", "raise"}
TickerInfo(outcome, symbol) ==
    IF outcome = "full"
    THEN ("symbol" :> symbol) @@ ("shortName" :> "Name Inc.")
         @@ ("regularMarketPrice" :> 150) @@ ("regularMarketPreviousClose" :> 148)
         @@ ("regularMarketVolume" :> 1000) @@ ("marketCap" :> 2500)
         @@ ("currency" :> "EUR") @@ ("exchange" :> "NMS")
    ELSE [k \in {} |-> 0]

\* SymbolClassifier.get_currency_for_symbol
get_currency_for_symbol(symbol) ==
    IF symbol = "USDJPY=X" THEN "JPY"
    ELSE IF symbol \in {"^N225", "998405.T"} THEN "JPY"
    ELSE "USD"

\* SymbolClassifier.get_exchange_for_symbol
get_exchange_for_symbol(symbol, cryptos, indices) ==
    LET asset_type == get_asset_type(symbol, cryptos, indices)
    IN IF asset_type = FOREX THEN "FX"
       ELSE IF asset_type = INDEX THEN "INDEX"
       ELSE IF asset_type = CRYPTO THEN "CRYPTO"
       ELSE "Unknown"

\* price_change and price_change_percent; the percentage is kept as a fraction
_calculate_price_changes(current_price, previous_close) ==
    LET price_change == IF previous_close # 0 THEN current_price - previous_close ELSE 0
    IN <<price_change,
         IF previous_close # 0 THEN Ratio(price_change * 100, previous_close)
         ELSE Ratio(0, 1)>>

\* the record of a fetched symbol, field by field
_create_stock_data(symbol, info, asset_type, t) ==
    LET current_price == DictGet(info, "currentPrice",
                                 DictGet(info, "regularMarketPrice", 0))
        previous_close == DictGet(info, "previousClose",
                                  DictGet(info, "regularMarketPreviousClose", 0))
        changes == _calculate_price_changes(current_price, previous_close)
        forex == asset_type = FOREX
        index == asset_type = INDEX
        classified_currency == get_currency_for_symbol(symbol)
        classified_exchange ==
            get_exchange_for_symbol(symbol, _KNOWN_CRYPTOCURRENCIES,
                                    _KNOWN_JAPANESE_INDICES)
    IN [symbol |-> symbol,
        name |-> DictGet(info, "longName", DictGet(info, "shortName", symbol)),
        currency |-> IF asset_type = STOCK /\ "currency" \in DOMAIN info
                     THEN info["currency"] ELSE classified_currency,
        exchange |-> IF asset_type = STOCK /\ "exchange" \in DOMAIN info
                     THEN info["exchange"] ELSE classified_exchange,
        asset_type |-> asset_type.value,
        current_price |-> current_price,
        previous_close |-> previous_close,
        price_change |-> changes[1],
        price_change_percent |-> changes[2],
        volume |-> IF forex THEN 0
                   ELSE DictGet(info, "volume", DictGet(info, "regularMarketVolume", 0)),
        market_cap |-> IF forex \/ index THEN 0 ELSE DictGet(info, "marketCap", 0),
        timestamp |-> t]

\* (a variant: the default record labelled as an equity whatever the symbol)
_create_error_data_as_stock(symbol, t) ==
    [symbol |-> symbol, name |-> symbol, currency |-> "USD", exchange |-> "Unknown",
     asset_type |-> STOCK.value, current_price |-> 0, previous_close |-> 0,
     price_change |-> 0, price_change_percent |-> Ratio(0, 1), volume |-> 0,
     market_cap |-> 0, timestamp |-> t]

\* the default record of a symbol whose fetch failed
_create_error_data(symbol, t) ==
    LET error_asset_type ==
            get_asset_type(symbol, _KNOWN_CRYPTOCURRENCIES, _KNOWN_JAPANESE_INDICES)
    IN [symbol |-> symbol,
        name |-> symbol,
        currency |-> get_currency_for_symbol(symbol),
        exchange |-> get_exchange_for_symbol(symbol, _KNOWN_CRYPTOCURRENCIES,
                                             _KNOWN_JAPANESE_INDICES),
        asset_type |-> error_asset_type.value,
        current_price |-> 0,
        previous_close |-> 0,
        price_change |-> 0,
        price_change_percent |-> Ratio(0, 1),
        volume |-> 0,
        market_cap |-> 0,
        timestamp |-> t]

\* an instrument the fetcher is given: the label names it was declared with
DurationLabels == {"symbol", "asset_type"}
ErrorLabels == {"symbol", "error_type", "asset_type"}
\* the label names of the histograms of the definition table
TableDurationLabels == {"symbol"}

\* _record_metrics: "observed", "counted", "none" when it records nothing,
\* "raised" when labels(...) is given names the instrument was not declared with
_record_metrics(success, instruments) ==
    IF success /\ instruments.financial_fetch_duration # None
    THEN IF instruments.financial_fetch_duration[1] = DurationLabels
         THEN "observed" ELSE "raised"
    ELSE IF ~success /\ instruments.financial_fetch_errors # None
    THEN IF instruments.financial_fetch_errors[1] = ErrorLabels
         THEN "counted" ELSE "raised"
    ELSE "none"

\* results[symbol] = data
SetResult(results, symbol, data) ==
    [k \in DOMAIN results \cup {symbol} |-> IF k = symbol THEN data ELSE results[k]]

\* what one iteration of the loop did for its symbol: the path it took, whether
\* the provider was called and gave data, whether cache.put ran, the metric
\* it recorded, and the record it built from the provider's data
Step(symbol, path, provider, ok, stored, metric, record) ==
    [symbol |-> symbol, path |-> path, provider |-> provider, ok |-> ok,
     put |-> stored, metric |-> metric, record |-> record]

\* get_stock_data while it runs: the cache, the results and the steps so far
Fetching(c, results, steps, raised) ==
    [cache |-> c, results |-> results, steps |-> steps, raised |-> raised]

\* the steps of the success path that can be made to fail after the put
Failings == {"none", "log"}

\* the except branch: the default record, the error metric
FetchFailed(symbol, c, st, provider, ok, stored, record) ==
    LET metric == _record_metrics(FALSE, fetcher)
    IN IF metric = "raised"
       THEN Fetching(c, st.results,
                     Append(st.steps, Step(symbol, "raised", provider, ok, stored,
                                           "none", record)),
                     Some("ValueError"))
       ELSE Fetching(c, SetResult(st.results, symbol, _create_error_data(symbol, now)),
                     Append(st.steps, Step(symbol, "default", provider, ok, stored,
                                           metric, record)),
                     None)

\* (a variant: the default record stored in the cache as well)
FetchOneCachingDefault(symbol, outcome, failing, st) ==
    LET c == get_cache(st.cache, symbol, now, ttl_seconds)
    IN Fetching(put(c, symbol, _create_error_data(symbol, now), now, max_size),
                SetResult(st.results, symbol, _create_error_data(symbol, now)),
                Append(st.steps, Step(symbol, "default", TRUE, FALSE, FALSE, "none", None)),
                None)

\* (a variant: the provider is called whatever the cache holds)
FetchOneIgnoringCache(symbol, outcome, failing, st) ==
    LET data == _create_stock_data(symbol, TickerInfo("full", symbol),
                    get_asset_type(symbol, _KNOWN_CRYPTOCURRENCIES,
                                   _KNOWN_JAPANESE_INDICES), now)
    IN Fetching(put(st.cache, symbol, data, now, max_size),
                SetResult(st.results, symbol, data),
                Append(st.steps, Step(symbol, "fetched", TRUE, TRUE, TRUE, "none",
                                      Some(data))),
                None)

\* one iteration of `for symbol in symbols`
FetchOne(symbol, outcome, failing, st) ==
    LET cached_data == get_value(st.cache, symbol, now, ttl_seconds)
        c == get_cache(st.cache, symbol, now, ttl_seconds)
        info == TickerInfo(outcome, symbol)
        asset_type == get_asset_type(symbol, _KNOWN_CRYPTOCURRENCIES,
                                     _KNOWN_JAPANESE_INDICES)
        stock_data == _create_stock_data(symbol, info, asset_type, now)
        stored == put(c, symbol, stock_data, now, max_size)
        metric == _record_metrics(TRUE, fetcher)
    IN IF st.raised # None THEN st
       ELSE IF cached_data # None
       THEN Fetching(c, SetResult(st.results, symbol, cached_data[1]),
                     Append(st.steps, Step(symbol, "cache", FALSE, FALSE, FALSE,
                                           "none", None)),
                     None)
       ELSE IF outcome = "raise"
       THEN FetchFailed(symbol, c, st, TRUE, FALSE, FALSE, None)
       ELSE IF DOMAIN info = {}
       THEN FetchFailed(symbol, c, st, TRUE, FALSE, FALSE, None)
       ELSE IF metric = "raised" \/ failing = "log"
       THEN FetchFailed(symbol, stored, st, TRUE, TRUE, TRUE, Some(stock_data))
       ELSE Fetching(stored, SetResult(st.results, symbol, stock_data),
                     Append(st.steps, Step(symbol, "fetched", TRUE, TRUE, TRUE, metric,
                                           Some(stock_data))),
                     None)

\* get_stock_data(symbols): the loop, from the i-th symbol on
RECURSIVE get_stock_data(_, _, _, _, _)
get_stock_data(symbols, outcomes, failings, i, st) ==
    IF i > Len(symbols) THEN st
    ELSE get_stock_data(symbols, outcomes, failings, i + 1,
                        FetchOne(symbols[i], outcomes[i], failings[i], st))

\* the lists of distinct symbols a call is made with
SymbolLists ==
    {<<a>> : a \in FetchSymbols}
        \cup {pair \in FetchSymbols \X FetchSymbols : pair[1] # pair[2]}

\* StockDataFetcher(): no instrument; StockDataFetcher(duration, errors): a
\* histogram declared with the labels _record_metrics passes or with those of
\* the definition table, and a counter
FetcherInstruments ==
    {[state |-> "constructed", financial_fetch_duration |-> None,
      financial_fetch_errors |-> None]}
    \cup {[state |-> "constructed", financial_fetch_duration |-> Some(d),
           financial_fetch_errors |-> Some(ErrorLabels)] :
              d \in {DurationLabels, TableDurationLabels}}

\* StockDataFetcher.__init__
NewFetcher(instruments) ==
    /\ fetcher.state = "none"
    /\ fetcher' = instruments
    /\ cache' = <<>>
    /\ UNCHANGED <<max_size, ttl_seconds, now, last, threads, histVars, gcall,
                   factoryVars, classifierVars, handlerVars, viewVars>>

GetStockData(symbols, outcomes, failings) ==
    /\ fetcher.state = "constructed"
    /\ LET st == get_stock_data(symbols, outcomes, failings, 1,
                                Fetching(cache, <<>>, <<>>, None))
       IN /\ cache' = st.cache
          /\ gcall' = [op |-> "get_stock_data", symbols |-> symbols,
                       steps |-> st.steps,
                       results |-> IF st.raised = None THEN st.results ELSE <<>>,
                       raised |-> st.raised]
    /\ UNCHANGED <<max_size, ttl_seconds, now, last, threads, histVars, fetcher,
                   factoryVars, classifierVars, handlerVars, viewVars>>

\* time passes between two calls
FetcherTick ==
    /\ fetcher.state = "constructed"
    /\ TickCall
    /\ UNCHANGED histVars

\* a cache of one entry or of MaxCap entries, entries that live MaxTtl seconds
FetcherSpecInit ==
    /\ Init
    /\ max_size \in {1, MaxCap}
    /\ ttl_seconds = MaxTtl

NextFetcher ==
    \/ \E instruments \in FetcherInstruments : NewFetcher(instruments)
    \/ \E symbols \in SymbolLists :
          \E outcomes \in [1..Len(symbols) -> ProviderOutcomes],
             failings \in [1..Len(symbols) -> Failings] :
                GetStockData(symbols, outcomes, failings)
    \/ FetcherTick

SpecFetcher == FetcherSpecInit /\ [][NextFetcher]_vars

\* ------------------------------------------------ properties of the fetcher
\* the step is a get_stock_data call
FetcherCalled == gcall' # gcall /\ gcall'.op = "get_stock_data"

\* C33: get_stock_data puts a record in the cache only after a successful
\* provider call for that symbol; the default record returned when the fetch
\* fails is never cached, the symbol is not stored after the call, and the
\* next call for it calls the provider again.
C33_OnlyFetchedRecordsAreCached ==
    [][FetcherCalled =>
          /\ \A i \in DOMAIN gcall'.steps :
                LET step == gcall'.steps[i]
                IN /\ step.put => (step.provider /\ step.ok /\ step.record # None)
                   /\ (step.provider /\ ~step.ok) =>
                         /\ ~step.put
                         /\ step.path = "default"
                         /\ gcall'.results[step.symbol]
                               = _create_error_data(step.symbol, now)
                         /\ ~HasKey(cache', step.symbol)
                   /\ step.path # "cache" => step.provider
          /\ \A k \in 1..Len(cache') :
                cache'[k].value
                    # _create_error_data(cache'[k].key, cache'[k].value.timestamp)
          /\ \A i \in DOMAIN gcall.steps, j \in DOMAIN gcall'.steps :
                (/\ gcall.steps[i].provider /\ ~gcall.steps[i].ok
                 /\ gcall'.steps[j].symbol = gcall.steps[i].symbol)
                    => gcall'.steps[j].provider]_vars

\* a call in which the provider failed for one symbol and gave data for the
\* other: the first got the default record and is not stored, the second is
C33_Witness ==
    /\ gcall.op = "get_stock_data"
    /\ \E i, j \in DOMAIN gcall.steps :
          /\ gcall.steps[i].provider /\ ~gcall.steps[i].ok
          /\ gcall.steps[i].path = "default"
          /\ ~HasKey(cache, gcall.steps[i].symbol)
          /\ gcall.steps[j].put /\ gcall.steps[j].path = "fetched"
          /\ HasKey(cache, gcall.steps[j].symbol)

\* C37: within one get_stock_data call, for every symbol, the call puts a
\* record for the symbol in the cache if and only if the record it returns for
\* the symbol is that fetched record, whichever step after the fetch fails.
C37_ResultAndCacheAgree ==
    gcall.op = "get_stock_data" =>
        \A i \in DOMAIN gcall.steps :
            LET step == gcall.steps[i]
            IN step.put <=>
                  /\ step.path = "fetched"
                  /\ gcall.raised = None
                  /\ gcall.results[step.symbol] = step.record[1]

UnifiedConfig ==
    [gauges |-> <<Def(<<"financial", "price">>, "financial_price"),
                  Def(<<"financial", "volume">>, "financial_volume"),
                  Def(<<"financial", "market", "cap">>, "financial_market_cap"),
                  Def(<<"financial", "52week", "high">>, "financial_52week_high"),
                  Def(<<"financial", "52week", "low">>, "financial_52week_low"),
                  Def(<<"financial", "previous", "close">>, "financial_previous_close"),
                  Def(<<"financial", "price", "change">>, "financial_price_change"),
                  Def(<<"financial", "price", "change", "percent">>,
                      "financial_price_change_percent"),
                  Def(<<"financial", "last", "updated">>, "financial_last_updated")>>,
     counters |-> <<Def(<<"financial", "fetch", "errors">>, "financial_fetch_errors")>>,
     histograms |-> <<Def(<<"financial", "fetch", "duration">>,
                          "financial_fetch_duration")>>]

\* the tables a factory is constructed with
ViewConfigs == {DEFAULT_METRICS_CONFIG, UnifiedConfig}

\* MetricsFactory(config=config, registry=CollectorRegistry(), app_config=cfg)
ConstructWith(config, cfg) ==
    /\ fstate = "none"
    /\ LET b == _create_metrics(config, cfg, Build(<<>>, registry, FALSE, builds + 1))
       IN /\ fstate' = IF b.raised THEN "raised" ELSE "constructed"
          /\ metrics' = b.metrics
          /\ registry' = b.registry
          /\ original' = Some([app_config |-> cfg, keys |-> DOMAIN b.metrics])
    /\ app_config' = cfg
    /\ builds' = builds + 1
    /\ built' = Some(cfg)
    /\ fcall' = FCall("__init__", None, {}, FALSE)
    /\ UNCHANGED <<lookup, samples, rebuild, notFactoryVars>>

\* the symbols the view is given records of: one of each category
ViewSymbols == {"AAPL", "USDJPY=X", "^GSPC", "BTC-USD"}

\* a record with every field the view reads, as the tests of the view build it
CompleteRecord(symbol) ==
    _create_stock_data(symbol, TickerInfo("full", symbol), Category(symbol), now)
        @@ ("fifty_two_week_high" :> 180) @@ ("fifty_two_week_low" :> 120)

\* a record that lacks fields, as the test of the except branch builds it
IncompleteRecord(symbol) == [symbol |-> symbol, name |-> symbol, exchange |-> "NMS"]

\* the update of one record while it runs: the keys get_metric was called
\* with, the keys whose instrument was written, the samples, and the exception
\* a step has raised
Updating(lookups, written, smp, error) ==
    [lookups |-> lookups, written |-> written, samples |-> smp, error |-> error]

\* data[field] for each field of `fields`: KeyError when one is missing
ReadFields(data, fields, u) ==
    IF u.error = None /\ ~(fields \subseteq DOMAIN data)
    THEN [u EXCEPT !.error = Some("KeyError")] ELSE u

\* metrics_factory.get_metric(key)
LookedUp(key, u) ==
    IF u.error # None THEN u ELSE [u EXCEPT !.lookups = Append(@, key)]

\* self._set_gauge_metric(metric, labels, data[field])
GaugeSet(key, data, field, u) ==
    IF u.error # None THEN u
    ELSE IF field \notin DOMAIN data THEN [u EXCEPT !.error = Some("KeyError")]
    ELSE LET metric == get_metric(metrics, key)
         IN [u EXCEPT !.samples = _set_gauge_metric(metric, data[field], @).samples,
                      !.written = IF metric # None /\ metric[1].kind = "Gauge"
                                  THEN Append(@, key) ELSE @]

\* the handler of the category of a symbol
HandlerFor(symbol) ==
    Methods(get_handler(_handlers, Category(symbol)).ret[1])

_update_price_metrics(data, u) ==
    LET u1 == ReadFields(data, {"symbol", "name", "currency", "exchange"}, u)
    IN IF u1.error # None THEN u1
       ELSE LET metric_key == HandlerFor(data["symbol"]).get_price_metric_key[1]
            IN GaugeSet(metric_key, data, "current_price", LookedUp(metric_key, u1))

\* (a variant: neither should_update_volume nor the `if key:` tests; the
\* volume and market-cap instruments of the equities are written for every
\* record)
_update_volume_and_market_metrics_unchecked(data, u) ==
    IF u.error # None \/ ~({"symbol", "name", "exchange"} \subseteq DOMAIN data) THEN u
    ELSE GaugeSet("financial_market_cap", data, "market_cap",
             LookedUp("financial_market_cap",
                 GaugeSet("financial_volume", data, "volume",
                     LookedUp("financial_volume", u))))

_update_volume_and_market_metrics(data, u) ==
    IF u.error # None THEN u
    ELSE LET handler == HandlerFor(data["symbol"])
             volume_key == handler.get_volume_metric_key
             market_cap_key == handler.get_market_cap_metric_key
             labels == ReadFields(data, {"symbol", "name", "exchange"}, u)
             volume == IF volume_key # None
                       THEN GaugeSet(volume_key[1], data, "volume",
                                     LookedUp(volume_key[1], labels))
                       ELSE labels
         IN IF ~handler.should_update_volume THEN u
            ELSE IF market_cap_key # None
            THEN GaugeSet(market_cap_key[1], data, "market_cap",
                          LookedUp(market_cap_key[1], volume))
            ELSE volume

_update_range_metrics(data, u) ==
    LET labels == ReadFields(data, {"symbol", "name", "exchange"}, u)
    IN IF labels.error # None THEN labels
       ELSE LET range_keys == HandlerFor(data["symbol"]).get_range_metric_keys
            IN GaugeSet(range_keys[2], data, "fifty_two_week_low",
                   GaugeSet(range_keys[1], data, "fifty_two_week_high",
                       LookedUp(range_keys[2], LookedUp(range_keys[1], labels))))

_update_change_metrics(data, u) ==
    LET labels == ReadFields(data, {"symbol", "name", "exchange"}, u)
    IN IF labels.error # None THEN labels
       ELSE LET change_keys == HandlerFor(data["symbol"]).get_change_metric_keys
            IN GaugeSet(change_keys[3], data, "price_change_percent",
                   GaugeSet(change_keys[2], data, "price_change",
                       GaugeSet(change_keys[1], data, "previous_close",
                           LookedUp(change_keys[3],
                               LookedUp(change_keys[2],
                                   LookedUp(change_keys[1], labels))))))

_update_timestamp_metrics(data, u) ==
    IF u.error # None THEN u
    ELSE LET timestamp_key == HandlerFor(data["symbol"]).get_timestamp_metric_key[1]
         IN GaugeSet(timestamp_key, data, "timestamp", LookedUp(timestamp_key, u))

\* the body of the try: the five steps, each left at the first exception
UpdateSteps(data, smp) ==
    _update_timestamp_metrics(data,
        _update_change_metrics(data,
            _update_range_metrics(data,
                _update_volume_and_market_metrics(data,
                    _update_price_metrics(data, Updating(<<>>, <<>>, smp, None))))))

\* what update_prometheus_metrics did for one item of the dict: the symbol,
\* the record, the category and handler of the symbol, the keys looked up and
\* written in the try, whether a step raised, the key looked up in the except
\* branch, and whether the error counter was incremented
Updated(symbol, data, u, error_key, counted) ==
    [symbol |-> symbol, data |-> data, asset_type |-> Category(symbol),
     handler |-> get_handler(_handlers, Category(symbol)).ret[1].class,
     lookups |-> u.lookups, written |-> u.written, error |-> u.error,
     error_key |-> error_key, counted |-> counted]

\* update_prometheus_metrics while it runs: the samples, what it did so far,
\* and the exception that has left the loop
ViewState(smp, updates, raised) == [samples |-> smp, updates |-> updates, raised |-> raised]

\* (a variant: no try; the first exception leaves the loop and the method)
UpdateOneNoTry(symbol, data, st) ==
    LET u == UpdateSteps(data, st.samples)
    IN IF st.raised # None THEN st
       ELSE ViewState(u.samples, Append(st.updates, Updated(symbol, data, u, None, FALSE)),
                      u.error)

\* one iteration of `for symbol, data in stock_data_dict.items()`
UpdateOne(symbol, data, st) ==
    LET u == UpdateSteps(data, st.samples)
        error_key == HandlerFor(symbol).get_error_metric_key
        error_metric == get_metric(metrics, error_key[1])
        o == _increment_counter_metric(error_metric, u.samples)
    IN IF st.raised # None THEN st
       ELSE IF u.error = None
       THEN ViewState(u.samples, Append(st.updates, Updated(symbol, data, u, None, FALSE)),
                      None)
       ELSE ViewState(o.samples,
                      Append(st.updates,
                             Updated(symbol, data, u, error_key,
                                     o.samples # u.samples)),
                      None)

\* update_prometheus_metrics(stock_data_dict): the loop over the items, the
\* dict given as the sequence of its items in insertion order
RECURSIVE update_prometheus_metrics(_, _, _)
update_prometheus_metrics(items, i, st) ==
    IF i > Len(items) THEN st
    ELSE update_prometheus_metrics(items, i + 1,
                                   UpdateOne(items[i][1], items[i][2], st))

\* the items of the dict get_stock_data returns, in the order of its symbols
ItemsOf(symbols, results) ==
    [i \in 1..Len(symbols) |-> <<symbols[i], results[symbols[i]]>>]

\* the dicts the view is given directly: one record, or a record that lacks
\* fields followed by a complete one
RecordDicts ==
    {<<<<s, CompleteRecord(s)>>>> : s \in ViewSymbols}
        \cup {<<<<"AAPL", IncompleteRecord("AAPL")>>, <<s, CompleteRecord(s)>>>> :
                 s \in {"^GSPC", "USDJPY=X"}}

\* the error counters have room for one increment per item
CounterRoom(n) ==
    \A inst \in DOMAIN samples : inst.kind = "Counter" => samples[inst] + n <= MaxCount

\* the update of a default record that vprev may keep
Remembered(updates) ==
    {vprev} \cup {Some(updates[i]) : i \in {j \in DOMAIN updates :
                       updates[j].data = _create_error_data(updates[j].symbol, now)}}

\* what a call on the view leaves alone in the factory
viewFrame ==
    <<fstate, app_config, metrics, registry, lookup, builds, fcall, original, built,
      rebuild, classifierVars, handlerVars>>

\* MetricsView.update_prometheus_metrics(stock_data_dict)
UpdatePrometheusMetrics(items) ==
    /\ Ready
    /\ CounterRoom(Len(items))
    /\ LET st == update_prometheus_metrics(items, 1, ViewState(samples, <<>>, None))
       IN /\ samples' = st.samples
          /\ vcall' = [op |-> "update_prometheus_metrics",
                       symbols |-> [i \in DOMAIN items |-> items[i][1]],
                       updates |-> st.updates, raised |-> st.raised]
          /\ vprev' \in Remembered(st.updates)
    /\ UNCHANGED <<cacheVars, fetcherVars, viewFrame>>

\* MetricsView.get for ?symbols=...: get_stock_data, then
\* update_prometheus_metrics with what it returned
MetricsViewGet(symbols, outcomes) ==
    /\ Ready
    /\ fetcher.state = "constructed"
    /\ CounterRoom(Len(symbols))
    /\ LET fetched == get_stock_data(symbols, outcomes, [i \in DOMAIN symbols |-> "none"],
                                     1, Fetching(cache, <<>>, <<>>, None))
           st == update_prometheus_metrics(ItemsOf(symbols, fetched.results), 1,
                                           ViewState(samples, <<>>, None))
       IN /\ fetched.raised = None
          /\ cache' = fetched.cache
          /\ gcall' = [op |-> "get_stock_data", symbols |-> symbols,
                       steps |-> fetched.steps, results |-> fetched.results,
                       raised |-> None]
          /\ samples' = st.samples
          /\ vcall' = [op |-> "get", symbols |-> symbols, updates |-> st.updates,
                       raised |-> st.raised]
          /\ vprev' \in Remembered(st.updates)
    /\ UNCHANGED <<max_size, ttl_seconds, now, last, threads, histVars, fetcher,
                   viewFrame>>

\* the lists MetricsView.get is called with
ViewLists == {<<s>> : s \in ViewSymbols} \cup {<<"AAPL", "^GSPC">>}

\* a cache of MaxCap entries that live MaxTtl seconds
ViewSpecInit ==
    /\ Init
    /\ max_size = MaxCap
    /\ ttl_seconds = MaxTtl

NextView ==
    \/ \E config \in ViewConfigs : ConstructWith(config, None)
    \/ NewFetcher([state |-> "constructed", financial_fetch_duration |-> None,
                   financial_fetch_errors |-> None])
    \/ \E symbols \in ViewLists :
          \E outcomes \in [1..Len(symbols) -> {"full", "raise"}] :
             MetricsViewGet(symbols, outcomes)
    \/ \E items \in RecordDicts : UpdatePrometheusMetrics(items)

SpecView == ViewSpecInit /\ [][NextView]_vars

\* --------------------------------------------------- properties of the view
\* the step is a call on the view
ViewCalled == vcall' # vcall
\* the elements of a sequence
Elements(seq) == {seq[i] : i \in DOMAIN seq}
\* the factory holds an instrument of the kind under the key
Holds(kind, key) == key \in DOMAIN metrics /\ metrics[key].kind = kind
\* the handler classes, and the instruments any of them names for the volume
\* and for the market capitalisation
HandlerTables == {StockHandler, ForexHandler, IndexHandler, CryptoHandler}
VolumeInstruments ==
    {k[1] : k \in {h.get_volume_metric_key : h \in HandlerTables} \ {None}}
MarketCapInstruments ==
    {k[1] : k \in {h.get_market_cap_metric_key : h \in HandlerTables} \ {None}}
\* the fields the five steps read from a record
ViewFields ==
    {"symbol", "name", "currency", "exchange", "current_price", "volume", "market_cap",
     "fifty_two_week_high", "fifty_two_week_low", "previous_close", "price_change",
     "price_change_percent", "timestamp"}
\* the fields read up to the end of the volume and market-cap step
VolumeStepFields ==
    {"symbol", "name", "currency", "exchange", "current_price", "volume", "market_cap"}

C32_DefaultRoutedLikeReal ==
    /\ \A i \in DOMAIN vcall.updates :
          LET u == vcall.updates[i]
          IN (/\ vprev # None
              /\ vprev[1].symbol = u.symbol
              /\ DOMAIN vprev[1].data = DOMAIN u.data) =>
                 /\ u.asset_type = vprev[1].asset_type
                 /\ u.handler = vprev[1].handler
                 /\ u.lookups = vprev[1].lookups
                 /\ u.written = vprev[1].written
                 /\ u.error_key = vprev[1].error_key
    /\ \A i \in DOMAIN gcall.steps :
          gcall.steps[i].path = "default" =>
             LET symbol == gcall.steps[i].symbol
                 data == gcall.results[symbol]
             IN /\ data.asset_type = Category(symbol).value
                /\ data.currency = get_currency_for_symbol(symbol)
                /\ data.exchange
                      = get_exchange_for_symbol(symbol, _KNOWN_CRYPTOCURRENCIES,
                                                _KNOWN_JAPANESE_INDICES)

\* the default record of a currency pair was updated earlier and a fetched
\* record of the pair is updated now, with other values, through instruments
\* the factory holds
C32_Witness ==
    /\ vprev # None
    /\ vprev[1].asset_type = FOREX
    /\ vprev[1].data.current_price = 0
    /\ vprev[1].written # <<>>
    /\ \E i \in DOMAIN vcall.updates :
          /\ vcall.updates[i].symbol = vprev[1].symbol
          /\ vcall.updates[i].data.current_price # 0
          /\ vcall.updates[i].written = vprev[1].written

\* C36: every record get_stock_data returns, fetched or default, carries
\* every field the update reads, so that the update of a returned record
\* goes through its five steps and never enters the metric_update_error path.
C36_ReturnedRecordsCompleteTheUpdate ==
    vcall.op = "get" =>
        \A i \in DOMAIN vcall.updates :
            /\ ViewFields \subseteq DOMAIN vcall.updates[i].data
            /\ vcall.updates[i].error = None

====
